---- MODULE Spec2Model ----
(***************************************************************************)
(* Model of gcc/tree-ssa-live.c: the SSA partition map (var_map), live     *)
(* range calculation, the tree-partition associator, the coalesce list,    *)
(* the conflict-graph builder and the coalescer.                           *)
(*                                                                         *)
(* Trees are records [code, id]; an SSA_NAME's id is its version, a        *)
(* declaration's id indexes DeclTable.  C arrays are functions over their   *)
(* index range, and a NULL array pointer is the empty function.            *)
(***************************************************************************)
EXTENDS Integers, Sequences, FiniteSets, TLC

(***************************************************************************)
(* Bounds of the model.                                                    *)
(***************************************************************************)
\* num_ssa_names of the partition-map specification (versions 1..NumSSA).
NumSSA == 3
\* Largest number of partition-map calls in one behaviour of SpecMap.
MaxOps == 4
GenBlocks == 3
MaxStmts == 4
ListPartitions == 3
MaxAdds == 4
TpaOps == 3
CompactSSA == 5
CoVersions == 8
CoCopies == 3

(***************************************************************************)
(* Program constants (tree-ssa-live.h).                                    *)
(***************************************************************************)
NO_PARTITION == -1
TPA_NONE == -1
ROOT_VAR_NONE == TPA_NONE
NO_BEST_COALESCE == -1
VARMAP_NORMAL == 0
VARMAP_NO_SINGLE_DEFS == 1

NULL_ARRAY == <<>>
NULL_LIST == [add_mode |-> FALSE, list |-> NULL_ARRAY]
NULL_HIST == [added |-> <<>>, popped |-> <<>>]
NULL_LIVE == [livein |-> NULL_ARRAY, global |-> {}, liveout |-> NULL_ARRAY]
NULL_TREE == [code |-> "NULL_TREE", id |-> 0]

\* The declarations of a procedure: tree code, DECL_IGNORED_P,
\* TREE_THIS_VOLATILE, DECL_REGISTER, DECL_RTL_SET_P and TREE_TYPE.
DeclTable ==
  << [code |-> "VAR_DECL",    ignored |-> TRUE,  volatile |-> FALSE,
      register |-> FALSE, rtl_set |-> FALSE, type |-> 1],
     [code |-> "VAR_DECL",    ignored |-> FALSE, volatile |-> FALSE,
      register |-> FALSE, rtl_set |-> FALSE, type |-> 1],
     [code |-> "VAR_DECL",    ignored |-> TRUE,  volatile |-> FALSE,
      register |-> FALSE, rtl_set |-> FALSE, type |-> 1],
     [code |-> "PARM_DECL",   ignored |-> TRUE,  volatile |-> FALSE,
      register |-> FALSE, rtl_set |-> FALSE, type |-> 1],
     [code |-> "VAR_DECL",    ignored |-> TRUE,  volatile |-> TRUE,
      register |-> FALSE, rtl_set |-> FALSE, type |-> 2],
     [code |-> "VAR_DECL",    ignored |-> TRUE,  volatile |-> FALSE,
      register |-> TRUE,  rtl_set |-> FALSE, type |-> 2],
     [code |-> "RESULT_DECL", ignored |-> TRUE,  volatile |-> FALSE,
      register |-> FALSE, rtl_set |-> FALSE, type |-> 1],
     [code |-> "VAR_DECL",    ignored |-> TRUE,  volatile |-> FALSE,
      register |-> FALSE, rtl_set |-> TRUE,  type |-> 1] >>

DeclIds == 1..Len(DeclTable)

SsaName(v) == [code |-> "SSA_NAME", id |-> v]
Decl(d) == [code |-> DeclTable[d].code, id |-> d]
TREE_CODE(t) == t.code
SSA_NAME_VERSION(t) == t.id
DECL_P(t) == t.code \in {"VAR_DECL", "PARM_DECL", "RESULT_DECL"}
DECL_IGNORED_P(t) == DeclTable[t.id].ignored
DECL_REGISTER(t) == DeclTable[t.id].register
DECL_RTL_SET_P(t) == DeclTable[t.id].rtl_set
\* The volatile flag of a node; no SSA_NAME is made with the flag set.
TREE_THIS_VOLATILE(t) == IF DECL_P(t) THEN DeclTable[t.id].volatile ELSE FALSE

VARIABLES
  prog,     \* the procedure in SSA form (input, never changed)
  map,      \* struct _var_map
  ann,      \* var_ann of every declaration
  joined,   \* history: least element of the union-closure class of each element
  nops,     \* history: number of calls made so far
  last,     \* history: the last operation and its operands/result
  pc,       \* position in the out-of-SSA pipeline
  live,     \* struct tree_live_info_d: livein, global, liveout
  stack,    \* the worklist stack of calculate_live_on_entry
  cur,      \* the partition live_worklist is working on
  cl,       \* struct coalesce_list_d: add_mode, list
  hist,     \* history: the total value added per set {p1, p2}, the costs popped
  tp,       \* the tree-partition associator handed to the coalescer
  cg,       \* the conflict graph
  co        \* the locals x, y, z, p1, var of coalesce_tpa_members

vars == <<prog, map, ann, joined, nops, last, pc, live, stack, cur, cl, hist,
          tp, cg, co>>
mapVars == <<map, ann, joined, nops>>
liveVars == <<live, stack, cur>>
listVars == <<cl, hist>>
coVars == <<tp, cg, co>>

(***************************************************************************)
(* libiberty partition.c, as used through map->var_partition.              *)
(***************************************************************************)
partition_new(size) ==
  [class_element |-> [x \in 0..(size - 1) |-> x],
   class_count   |-> [x \in 0..(size - 1) |-> 1]]

partition_find(part, elem) == part.class_element[elem]

\* Result: [part, ret].  The smaller class is absorbed into the larger one;
\* on a tie ELEM1's class keeps its representative.
partition_absorb(part, class, old) ==
  [part |-> [class_element |->
               [x \in DOMAIN part.class_element |->
                  IF part.class_element[x] = old THEN class
                  ELSE part.class_element[x]],
             class_count |->
               [part.class_count EXCEPT
                  ![class] = part.class_count[class] + part.class_count[old]]],
   ret |-> class]

partition_union(part, elem1, elem2) ==
  IF part.class_element[elem1] = part.class_element[elem2]
  THEN [part |-> part, ret |-> part.class_element[elem1]]
  ELSE IF part.class_count[elem1] < part.class_count[elem2]
       THEN partition_absorb(part, part.class_element[elem2],
                             part.class_element[elem1])
       ELSE partition_absorb(part, part.class_element[elem1],
                             part.class_element[elem2])

(***************************************************************************)
(* tree-ssa-live.h inline accessors.                                       *)
(***************************************************************************)
num_var_partitions(m) == m.num_partitions

var_to_partition(m, a, var) ==
  IF TREE_CODE(var) = "SSA_NAME"
  THEN LET part == partition_find(m.var_partition, SSA_NAME_VERSION(var)) IN
       IF m.partition_to_compact # NULL_ARRAY
       THEN m.partition_to_compact[part]
       ELSE part
  ELSE IF a[var.id].out_of_ssa_tag THEN a[var.id].partition ELSE NO_PARTITION

partition_to_var(m, i) ==
  LET r == IF m.compact_to_partition # NULL_ARRAY
           THEN m.compact_to_partition[i] ELSE i
  IN m.partition_to_var[partition_find(m.var_partition, r)]

\* register_ssa_partition, without the optional reference counter.
register_ssa_partition(m, ssa_var) ==
  LET version == SSA_NAME_VERSION(ssa_var) IN
  IF m.partition_to_var[version] = NULL_TREE
  THEN [m EXCEPT !.partition_to_var[version] = ssa_var]
  ELSE m

(***************************************************************************)
(* Partition map.                                                          *)
(***************************************************************************)
init_var_map(size) ==
  [var_partition        |-> partition_new(size),
   partition_to_var     |-> [x \in 0..(size - 1) |-> NULL_TREE],
   partition_to_compact |-> NULL_ARRAY,
   compact_to_partition |-> NULL_ARRAY,
   num_partitions       |-> size,
   partition_size       |-> size]

InitAnn ==
  [d \in DeclIds |-> [out_of_ssa_tag |-> FALSE, partition |-> NO_PARTITION,
                      root_var_processed |-> FALSE, root_index |-> 0]]

\* Variant of change_partition_var that writes partition_to_var at PART
\* itself, whether or not the map is compacted.
change_partition_var_untranslated(m, a, var, part) ==
  [map |-> [m EXCEPT !.partition_to_var[part] = var],
   ann |-> [a EXCEPT ![var.id].out_of_ssa_tag = TRUE,
                     ![var.id].partition = part]]

\* Result: [map, ann].
change_partition_var(m, a, var, part) ==
  LET na == [a EXCEPT ![var.id].out_of_ssa_tag = TRUE,
                      ![var.id].partition = part]
  IN IF m.compact_to_partition # NULL_ARRAY
     THEN [map |-> [m EXCEPT
                      !.partition_to_var[m.compact_to_partition[part]] = var],
           ann |-> na]
     ELSE [map |-> m, ann |-> na]


\* change_partition_var's assertion holds and its accesses are in bounds
\* (line 277, and compact_to_partition[part] of line 283).
\* compact_var_map allocates and frees the two tables together, so the map
\* has a compact_to_partition table, possibly one of no entries, exactly when
\* it has a partition_to_compact table.
change_partition_var_ok(m, var, part) ==
  IF TREE_CODE(var) = "SSA_NAME" THEN FALSE
  ELSE IF m.partition_to_compact # NULL_ARRAY
       THEN part \in DOMAIN m.compact_to_partition
       ELSE TRUE

\* An operand var_union resolves without a failure: an SSA name is looked up
\* by its version; a declaration on a compacted map needs a partition number
\* that indexes compact_to_partition (lines 122-124, 131-133), and on a map
\* that is not compacted any partition but NO_PARTITION (gcc_assert lines
\* 147-148).  Whether the partition has a variable is not looked at.
valid_operand(m, a, var) ==
  IF TREE_CODE(var) = "SSA_NAME"
  THEN SSA_NAME_VERSION(var) \in 0..(m.partition_size - 1)
  ELSE IF m.partition_to_compact # NULL_ARRAY
       THEN var_to_partition(m, a, var) \in DOMAIN m.compact_to_partition
       ELSE var_to_partition(m, a, var) # NO_PARTITION

\* The raw partition element var_union resolves an operand to.
union_operand(m, a, var) ==
  IF TREE_CODE(var) = "SSA_NAME"
  THEN partition_find(m.var_partition, SSA_NAME_VERSION(var))
  ELSE LET p == var_to_partition(m, a, var) IN
       IF m.compact_to_partition # NULL_ARRAY
       THEN m.compact_to_partition[p] ELSE p

\* root_var and other_var as var_union leaves them after both operands.
union_root_var(var1, var2) ==
  LET r1 == IF TREE_CODE(var1) = "SSA_NAME" THEN NULL_TREE ELSE var1 IN
  IF TREE_CODE(var2) = "SSA_NAME" THEN r1
  ELSE IF r1 = NULL_TREE \/ (DECL_P(r1) /\ DECL_IGNORED_P(r1))
       THEN var2 ELSE r1

union_other_var(var1, var2) ==
  LET r1 == IF TREE_CODE(var1) = "SSA_NAME" THEN NULL_TREE ELSE var1 IN
  IF TREE_CODE(var2) = "SSA_NAME" THEN NULL_TREE
  ELSE IF r1 = NULL_TREE \/ (DECL_P(r1) /\ DECL_IGNORED_P(r1))
       THEN r1 ELSE var2

\* Mutant of var_union: the second operand is resolved from VAR1 again, so
\* partition_union is handed the same element twice.
var_union_same_operand(m, a, var1, var2) ==
  [map |-> m, ann |-> a,
   ret |-> IF m.partition_to_compact # NULL_ARRAY
           THEN m.partition_to_compact[union_operand(m, a, var1)]
           ELSE union_operand(m, a, var1)]

\* Lines 158-163: the representative variables are recorded, root_var first
\* and other_var after it.  Result: [map, ann, ret].
var_union_set_other(c1, other_var, p3) ==
  IF other_var # NULL_TREE
  THEN [map |-> change_partition_var(c1.map, c1.ann, other_var, p3).map,
        ann |-> change_partition_var(c1.map, c1.ann, other_var, p3).ann,
        ret |-> p3]
  ELSE [map |-> c1.map, ann |-> c1.ann, ret |-> p3]

var_union_set_root(m1, a, root_var, other_var, p3) ==
  var_union_set_other(IF root_var # NULL_TREE
                      THEN change_partition_var(m1, a, root_var, p3)
                      ELSE [map |-> m1, ann |-> a],
                      other_var, p3)

\* Lines 155-156: U is the result of partition_union (or of p1 = p2).
var_union_joined(m, a, u, root_var, other_var) ==
  var_union_set_root([m EXCEPT !.var_partition = u.part], a,
                     root_var, other_var,
                     IF m.partition_to_compact # NULL_ARRAY
                     THEN m.partition_to_compact[u.ret] ELSE u.ret)

\* Lines 150-153.
var_union_resolved(m, a, p1, p2, root_var, other_var) ==
  var_union_joined(m, a,
                   IF p1 = p2 THEN [part |-> m.var_partition, ret |-> p1]
                   ELSE partition_union(m.var_partition, p1, p2),
                   root_var, other_var)

\* Result: [map, ann, ret].
var_union(m, a, var1, var2) ==
  var_union_resolved(m, a, union_operand(m, a, var1), union_operand(m, a, var2),
                     union_root_var(var1, var2), union_other_var(var1, var2))

\* The raw partition var_union computes as p3 (lines 150-153).
var_union_raw(m, p1, p2) ==
  IF p1 = p2 THEN p1 ELSE partition_union(m.var_partition, p1, p2).ret

\* partition_union is handed two elements of the partition, or is not called
\* because p1 = p2 (lines 150-153).
var_union_in_range(m, p1, p2) ==
  IF p1 = p2 THEN TRUE
  ELSE {p1, p2} \subseteq 0..(m.partition_size - 1)

\* var_union's accesses are in bounds and its assertions hold.
var_union_ok(m, a, var1, var2) ==
  IF valid_operand(m, a, var1) /\ valid_operand(m, a, var2)
  THEN IF var_union_in_range(m, union_operand(m, a, var1),
                             union_operand(m, a, var2))
       THEN IF (TREE_CODE(var1) = "SSA_NAME" /\ TREE_CODE(var2) = "SSA_NAME")
            THEN TRUE
            ELSE IF m.compact_to_partition = NULL_ARRAY THEN TRUE
            ELSE m.partition_to_compact[
                   var_union_raw(m, union_operand(m, a, var1),
                                 union_operand(m, a, var2))] # NO_PARTITION
       ELSE FALSE
  ELSE FALSE

(***************************************************************************)
(* Tree-partition associator.  The varrays trees and first_partition are   *)
(* sequences; C index i is sequence index i + 1.                           *)
(***************************************************************************)
SSA_NAME_VAR(t) == Decl(prog.ssa_name_var[t.id])

NULL_TPA ==
  [null |-> TRUE, num_trees |-> 0, uncompressed_num |-> -1,
   next_partition |-> NULL_ARRAY, partition_to_tree_map |-> NULL_ARRAY,
   trees |-> <<>>, first_partition |-> <<>>]

tpa_init(m) ==
  IF num_var_partitions(m) = 0 THEN NULL_TPA
  ELSE [null |-> FALSE, num_trees |-> 0, uncompressed_num |-> -1,
        next_partition |-> [x \in 0..(num_var_partitions(m) - 1) |-> TPA_NONE],
        partition_to_tree_map |->
          [x \in 0..(num_var_partitions(m) - 1) |-> TPA_NONE],
        trees |-> <<>>, first_partition |-> <<>>]

tpa_num_trees(tpa) == tpa.num_trees
tpa_tree(tpa, i) == tpa.trees[i + 1]
tpa_first_partition(tpa, i) == tpa.first_partition[i + 1]
tpa_next_partition(tpa, i) == tpa.next_partition[i]
tpa_find_tree(tpa, i) ==
  IF tpa.partition_to_tree_map[i] # TPA_NONE
     /\ tpa.partition_to_tree_map[i] >= tpa_num_trees(tpa)
  THEN TPA_NONE
  ELSE tpa.partition_to_tree_map[i]

\* The body of root_var_init's loop, from partition X down to 0.
\* Result: [rv, ann, ok]; ok is FALSE when the assertion of line 944
\* fails or a partition number read from an annotation is out of range.
RECURSIVE root_var_loop(_, _, _, _, _)

\* Variant of root_var_add that starts a new list for every partition.
root_var_add_new_list(m, a, rv, seen, x, p, d) ==
  root_var_loop(m,
    [a EXCEPT ![d].root_var_processed = TRUE,
              ![d].root_index = rv.num_trees],
    [rv EXCEPT
       !.num_trees = rv.num_trees + 1,
       !.trees = Append(rv.trees, Decl(d)),
       !.first_partition = Append(rv.first_partition, p),
       !.partition_to_tree_map[p] = rv.num_trees],
    seen \cup {p}, x - 1)

\* Lines 950-966: partition P, first seen, is entered under declaration D.
root_var_add(m, a, rv, seen, x, p, d) ==
  IF a[d].root_var_processed
  THEN root_var_loop(m, a,
         [rv EXCEPT
            !.next_partition[p] = rv.first_partition[a[d].root_index + 1],
            !.first_partition[a[d].root_index + 1] = p,
            !.partition_to_tree_map[p] = a[d].root_index],
         seen \cup {p}, x - 1)
  ELSE root_var_loop(m,
         [a EXCEPT ![d].root_var_processed = TRUE,
                   ![d].root_index = rv.num_trees],
         [rv EXCEPT
            !.num_trees = rv.num_trees + 1,
            !.trees = Append(rv.trees, Decl(d)),
            !.first_partition = Append(rv.first_partition, p),
            !.partition_to_tree_map[p] = rv.num_trees],
         seen \cup {p}, x - 1)

\* Lines 942-951: T is the variable of partition X, P its partition.
root_var_visit(m, a, rv, seen, x, t, p) ==
  IF p \notin 0..(num_var_partitions(m) - 1)
  THEN [rv |-> rv, ann |-> a, ok |-> FALSE]
  ELSE IF p \in seen THEN root_var_loop(m, a, rv, seen, x - 1)
  ELSE root_var_add(m, a, rv, seen, x, p,
                    IF TREE_CODE(t) = "SSA_NAME" THEN SSA_NAME_VAR(t).id
                    ELSE t.id)

root_var_loop(m, a, rv, seen, x) ==
  IF x < 0 THEN [rv |-> rv, ann |-> a, ok |-> TRUE]
  ELSE IF partition_to_var(m, x) = NULL_TREE
       THEN root_var_loop(m, a, rv, seen, x - 1)
       ELSE root_var_visit(m, a, rv, seen, x, partition_to_var(m, x),
                           var_to_partition(m, a, partition_to_var(m, x)))

\* Lines 969-974: the root_var_processed flags are cleared.
root_var_reset(r) ==
  [rv |-> r.rv,
   ann |-> [d \in DOMAIN r.ann |->
              IF d \in {r.rv.trees[i].id : i \in 1..r.rv.num_trees}
              THEN [r.ann[d] EXCEPT !.root_var_processed = FALSE]
              ELSE r.ann[d]],
   ok |-> r.ok]

\* Result: [rv, ann, ok].
root_var_init(m, a) ==
  IF num_var_partitions(m) = 0
  THEN [rv |-> NULL_TPA, ann |-> a, ok |-> TRUE]
  ELSE root_var_reset(root_var_loop(m, a, tpa_init(m), {},
                                    num_var_partitions(m) - 1))

\* The type of a declaration, and of an SSA_NAME the type of its variable.
TREE_TYPE(t) ==
  [code |-> "INTEGER_TYPE",
   id |-> IF TREE_CODE(t) = "SSA_NAME"
          THEN DeclTable[SSA_NAME_VAR(t).id].type
          ELSE DeclTable[t.id].type]

\* Lines 1006-1015: the test that makes type_var_init skip variable T.
type_var_disallowed(t) ==
  IF t = NULL_TREE THEN TRUE
  ELSE \/ TREE_THIS_VOLATILE(t)
       \/ TREE_CODE(t) = "RESULT_DECL"
       \/ TREE_CODE(t) = "PARM_DECL"
       \/ IF DECL_P(t)
          THEN \/ DECL_REGISTER(t)
               \/ ~ DECL_IGNORED_P(t)
               \/ DECL_RTL_SET_P(t)
          ELSE FALSE

\* Lines 1028-1031: the index of the list of type T, looked for from Y on;
\* num_trees when there is none.
RECURSIVE type_var_find_list(_, _, _)
type_var_find_list(tv, t, y) ==
  IF y >= tv.num_trees THEN tv.num_trees
  ELSE IF tpa_tree(tv, y) = t THEN y
  ELSE type_var_find_list(tv, t, y + 1)

\* The body of type_var_init's loop, from partition X down to 0.
\* Result: [tv, ok]; ok is FALSE when the assertion of line 1019 fails or
\* the partition number read for a declaration is out of range.
RECURSIVE type_var_loop(_, _, _, _, _)

\* Lines 1032-1043: partition P, first seen, is entered in list Y.
type_var_add(m, a, tv, seen, x, p, t, y) ==
  IF y = tv.num_trees
  THEN type_var_loop(m, a,
         [tv EXCEPT !.num_trees = tv.num_trees + 1,
                    !.trees = Append(tv.trees, t),
                    !.first_partition = Append(tv.first_partition, p),
                    !.partition_to_tree_map[p] = y],
         seen \cup {p}, x - 1)
  ELSE type_var_loop(m, a,
         [tv EXCEPT !.next_partition[p] = tpa_first_partition(tv, y),
                    !.first_partition[y + 1] = p,
                    !.partition_to_tree_map[p] = y],
         seen \cup {p}, x - 1)

\* Lines 1017-1031: T is the variable of partition X, P its partition.
type_var_visit(m, a, tv, seen, x, t, p) ==
  IF p \notin 0..(num_var_partitions(m) - 1)
  THEN [tv |-> tv, ok |-> FALSE]
  ELSE IF p \in seen THEN type_var_loop(m, a, tv, seen, x - 1)
  ELSE type_var_add(m, a, tv, seen, x, p, TREE_TYPE(t),
                    type_var_find_list(tv, TREE_TYPE(t), 0))

type_var_loop(m, a, tv, seen, x) ==
  IF x < 0 THEN [tv |-> tv, ok |-> TRUE]
  ELSE IF type_var_disallowed(partition_to_var(m, x))
       THEN type_var_loop(m, a, tv, seen, x - 1)
       ELSE type_var_visit(m, a, tv, seen, x, partition_to_var(m, x),
                           var_to_partition(m, a, partition_to_var(m, x)))

\* Result: [tv, ok].
type_var_init(m, a) ==
  IF num_var_partitions(m) = 0
  THEN [tv |-> NULL_TPA, ok |-> TRUE]
  ELSE type_var_loop(m, a, tpa_init(m), {}, num_var_partitions(m) - 1)

root_var_find(rv, i) == tpa_find_tree(rv, i)
root_var_first_partition(rv, i) == tpa_first_partition(rv, i)
root_var_next_partition(rv, i) == tpa_next_partition(rv, i)


\* Variant of compact_used that marks every referenced representative,
\* whatever the root_var object says.
compact_used_all(m, rv) ==
  { tmp \in { partition_find(m.var_partition, x) :
                x \in 0..(m.partition_size - 1) } :
      m.partition_to_var[tmp] # NULL_TREE }

(***************************************************************************)
(* compact_var_map.                                                        *)
(***************************************************************************)
\* The raw representatives the loop of lines 218-236 marks in 'used'.  RV is
\* the root_var object when FLAGS has VARMAP_NO_SINGLE_DEFS, else NULL_TPA.
compact_used(m, rv) ==
  { tmp \in { partition_find(m.var_partition, x) :
                x \in 0..(m.partition_size - 1) } :
      /\ m.partition_to_var[tmp] # NULL_TREE
      /\ \/ rv.null
         \/ root_var_next_partition(rv,
              root_var_first_partition(rv, root_var_find(rv, tmp)))
              # ROOT_VAR_NONE }

\* Every lookup of the loop of lines 218-236 is in bounds.
compact_used_ok(m, rv) ==
  IF rv.null THEN TRUE
  ELSE \A x \in 0..(m.partition_size - 1) :
         IF m.partition_to_var[partition_find(m.var_partition, x)] # NULL_TREE
         THEN root_var_find(rv, partition_find(m.var_partition, x))
                \in 0..(rv.num_trees - 1)
         ELSE TRUE

\* Mutant of compact_numbering: compact numbers are taken from the position
\* in the whole partition range instead of a running count, leaving gaps.
compact_numbering_gaps(used, x) == x - 1

\* Mutant of compact_numbering: the running count is never incremented.
compact_numbering_no_increment(used, x) == 0

\* The value of 'count' when EXECUTE_IF_SET_IN_SBITMAP (used, 1, x, ...)
\* reaches X (lines 244-252).
compact_numbering(used, x) == Cardinality({y \in used : y >= 1 /\ y < x})

\* compact_to_partition[C] after the loop of lines 244-252: the last X stored
\* at index C.  (Every index below count is stored to, because partition 0
\* is never referenced; NO_PARTITION stands for a slot never written.)
compact_slot(used, c) ==
  LET W == {x \in used : x >= 1 /\ compact_numbering(used, x) = c} IN
  IF W = {} THEN NO_PARTITION ELSE CHOOSE x \in W : \A y \in W : y <= x

\* change_partition_var for every retained partition whose variable is a
\* declaration (lines 248-250), in ascending order of X.
RECURSIVE compact_renumber_decls(_, _, _, _)
compact_renumber_decls(m, a, used, x) ==
  IF x >= m.partition_size THEN [map |-> m, ann |-> a]
  ELSE IF x \in used /\ TREE_CODE(m.partition_to_var[x]) # "SSA_NAME"
       THEN compact_renumber_decls(
              m, change_partition_var(m, a, m.partition_to_var[x],
                                      m.partition_to_compact[x]).ann,
              used, x + 1)
       ELSE compact_renumber_decls(m, a, used, x + 1)

\* Lines 196-208: the old tables are abandoned.
compact_reset(m) ==
  [m EXCEPT !.partition_to_compact = NULL_ARRAY,
            !.compact_to_partition = NULL_ARRAY,
            !.num_partitions = m.partition_size]

\* Lines 210-211.  Result: [rv, ann, ok].
compact_root_var(m0, a, flags) ==
  IF flags = VARMAP_NO_SINGLE_DEFS THEN root_var_init(m0, a)
  ELSE [rv |-> NULL_TPA, ann |-> a, ok |-> TRUE]

\* Lines 238-260, with COUNT the number of bits set in USED.
compact_build(m0, a, used, count) ==
  IF count # m0.partition_size
  THEN compact_renumber_decls(
         [m0 EXCEPT
            !.partition_to_compact =
               [x \in 0..(m0.partition_size - 1) |->
                  IF x \in used /\ x >= 1
                  THEN compact_numbering(used, x) ELSE NO_PARTITION],
            !.compact_to_partition =
               [c \in 0..(count - 1) |-> compact_slot(used, c)],
            !.num_partitions = count],
         a, used, 1)
  ELSE [map |-> [m0 EXCEPT !.num_partitions = count], ann |-> a]

compact_with_used(m0, a, used) ==
  compact_build(m0, a, used, Cardinality(used))

compact_with_root_var(m0, r) ==
  compact_with_used(m0, r.ann, compact_used(m0, r.rv))

compact_after_reset(m0, a, flags) ==
  compact_with_root_var(m0, compact_root_var(m0, a, flags))

\* Result: [map, ann].
compact_var_map(m, a, flags) == compact_after_reset(compact_reset(m), a, flags)

compact_root_var_ok(m0, r) ==
  IF r.ok THEN compact_used_ok(m0, r.rv) ELSE FALSE

\* compact_var_map's assertions hold and its accesses are in bounds.
compact_var_map_ok(m, a, flags) ==
  IF flags = VARMAP_NO_SINGLE_DEFS
  THEN compact_root_var_ok(compact_reset(m),
                           root_var_init(compact_reset(m), a))
  ELSE TRUE

(***************************************************************************)
(* The procedure.  prog is a record                                        *)
(*   num_ssa_names, ssa_name_var (version -> declaration id),              *)
(*   nblocks (basic blocks 0..nblocks-1 in FOR_EACH_BB order),             *)
(*   preds (block -> sequence of predecessor blocks, ENTRY_BLOCK for the   *)
(*          entry block),                                                  *)
(*   phis (block -> sequence of [result, args]; an argument is             *)
(*         [def: tree, src: block of PHI_ARG_EDGE]),                       *)
(*   stmts (block -> sequence of [code, lhs, rhs, defs, uses]).            *)
(***************************************************************************)
ENTRY_BLOCK == -1
\* bb_for_stmt of the empty defining statement of a default definition.
NULL_BLOCK == -3

Blocks(pg) == 0..(pg.nblocks - 1)
Range(f) == {f[i] : i \in DOMAIN f}

\* An "lhs = <expression>" statement defining version V from the versions USES.
DefStmt(v, uses) ==
  [code |-> "MODIFY_EXPR", lhs |-> SsaName(v),
   rhs |-> [code |-> "PLUS_EXPR", id |-> 0],
   defs |-> <<v>>, uses |-> uses]
\* An "lhs = constant" statement.
ConstStmt(v) ==
  [code |-> "MODIFY_EXPR", lhs |-> SsaName(v),
   rhs |-> [code |-> "INTEGER_CST", id |-> 0],
   defs |-> <<v>>, uses |-> <<>>]
\* A copy "lhs = rhs" between two SSA names.
CopyStmt(v, w) ==
  [code |-> "MODIFY_EXPR", lhs |-> SsaName(v), rhs |-> SsaName(w),
   defs |-> <<v>>, uses |-> <<w>>]
\* A statement that only uses the versions USES (a call, a return).
UseStmt(uses) ==
  [code |-> "CALL_EXPR", lhs |-> NULL_TREE, rhs |-> NULL_TREE,
   defs |-> <<>>, uses |-> uses]
Phi(res, args) == [result |-> SsaName(res), args |-> args]
PhiArg(v, src) == [def |-> SsaName(v), src |-> src]

\* The SSA versions create_ssa_var_map registers (lines 351-405).
referenced_versions(pg) ==
  UNION { UNION { {ph.result.id} \cup
                  { ar.def.id : ar \in { x \in Range(ph.args) :
                                           TREE_CODE(x.def) = "SSA_NAME" } }
                  : ph \in Range(pg.phis[b]) } : b \in Blocks(pg) }
  \cup
  UNION { UNION { Range(st.defs) \cup Range(st.uses)
                  : st \in Range(pg.stmts[b]) } : b \in Blocks(pg) }

create_ssa_var_map(pg) ==
  LET m == init_var_map(pg.num_ssa_names + 1) IN
  [m EXCEPT !.partition_to_var =
     [x \in 0..pg.num_ssa_names |->
        IF x \in referenced_versions(pg) THEN SsaName(x) ELSE NULL_TREE]]

(***************************************************************************)
(* Live-on-entry and live-on-exit.                                         *)
(***************************************************************************)
\* bb_for_stmt (SSA_NAME_DEF_STMT (v)): the block whose PHI or statement
\* defines version V, NULL_BLOCK for a default definition.
def_bb(pg, v) ==
  IF \E b \in Blocks(pg) :
       \/ \E k \in DOMAIN pg.phis[b] : pg.phis[b][k].result.id = v
       \/ \E k \in DOMAIN pg.stmts[b] : v \in Range(pg.stmts[b][k].defs)
  THEN CHOOSE b \in Blocks(pg) :
       \/ \E k \in DOMAIN pg.phis[b] : pg.phis[b][k].result.id = v
       \/ \E k \in DOMAIN pg.stmts[b] : v \in Range(pg.stmts[b][k].defs)
  ELSE NULL_BLOCK

\* Lines 432-451: an empty livein bitmap per partition, an empty global
\* bitmap, liveout left NULL.
new_tree_live_info(m) ==
  [livein |-> [x \in 0..(num_var_partitions(m) - 1) |-> {}],
   global |-> {},
   liveout |-> NULL_ARRAY]

\* The bitmap VEC after set_if_valid (map, vec, var).
set_if_valid(m, a, vec, var) ==
  IF var_to_partition(m, a, var) # NO_PARTITION
  THEN vec \cup {var_to_partition(m, a, var)}
  ELSE vec

\* The live info after add_livein_if_notdef (live, def_vec, var, bb); BB is
\* a block index or ENTRY_BLOCK.
add_livein_if_notdef(lv, m, a, def_vec, var, bb) ==
  IF var_to_partition(m, a, var) = NO_PARTITION \/ bb = ENTRY_BLOCK
  THEN lv
  ELSE IF var_to_partition(m, a, var) \notin def_vec
       THEN [lv EXCEPT
               !.livein[var_to_partition(m, a, var)] = @ \cup {bb},
               !.global = @ \cup {var_to_partition(m, a, var)}]
       ELSE lv

\* Lines 585-595 for one PHI argument.
scan_phi_arg(pg, m, a, lv, saw_def, arg) ==
  IF TREE_CODE(arg.def) # "SSA_NAME" THEN lv
  ELSE IF arg.src # def_bb(pg, arg.def.id)
       THEN add_livein_if_notdef(lv, m, a, saw_def, arg.def, arg.src)
       ELSE lv

\* Lines 583-596: the arguments of one PHI from argument K on.
RECURSIVE scan_phi_args(_, _, _, _, _, _, _)
scan_phi_args(pg, m, a, lv, saw_def, args, k) ==
  IF k > Len(args) THEN lv
  ELSE scan_phi_args(pg, m, a,
                     scan_phi_arg(pg, m, a, lv, saw_def, args[k]),
                     saw_def, args, k + 1)

\* Variant of scan_phis that marks each PHI result defined as soon as its
\* PHI has been scanned (a single pass over the PHI nodes).
RECURSIVE scan_phis_single_pass(_, _, _, _, _, _, _)
scan_phis_single_pass(pg, m, a, lv, saw_def, phis, k) ==
  IF k > Len(phis) THEN lv
  ELSE scan_phis_single_pass(pg, m, a,
         scan_phi_args(pg, m, a, lv, saw_def, phis[k].args, 1),
         set_if_valid(m, a, saw_def, phis[k].result), phis, k + 1)

\* Lines 581-597: the arguments of the PHIs of a block from PHI K on, all
\* scanned against the same SAW_DEF.
RECURSIVE scan_phis(_, _, _, _, _, _, _)
scan_phis(pg, m, a, lv, saw_def, phis, k) ==
  IF k > Len(phis) THEN lv
  ELSE scan_phis(pg, m, a,
                 scan_phi_args(pg, m, a, lv, saw_def, phis[k].args, 1),
                 saw_def, phis, k + 1)

\* Lines 606-610: saw_def after the results of all PHIs are marked.
RECURSIVE mark_phi_results(_, _, _, _, _)
mark_phi_results(m, a, saw_def, phis, k) ==
  IF k > Len(phis) THEN saw_def
  ELSE mark_phi_results(m, a, set_if_valid(m, a, saw_def, phis[k].result),
                        phis, k + 1)

\* Lines 618-621: the uses of one statement from use K on.
RECURSIVE scan_uses(_, _, _, _, _, _, _)
scan_uses(m, a, lv, saw_def, uses, k, bb) ==
  IF k > Len(uses) THEN lv
  ELSE scan_uses(m, a,
                 add_livein_if_notdef(lv, m, a, saw_def, SsaName(uses[k]), bb),
                 saw_def, uses, k + 1, bb)

\* Lines 623-626: saw_def after the defs of one statement from def K on.
RECURSIVE mark_defs(_, _, _, _, _)
mark_defs(m, a, saw_def, defs, k) ==
  IF k > Len(defs) THEN saw_def
  ELSE mark_defs(m, a, set_if_valid(m, a, saw_def, SsaName(defs[k])),
                 defs, k + 1)

\* Lines 612-627: the statements of block BB from statement K on.
RECURSIVE scan_stmts(_, _, _, _, _, _, _)
scan_stmts(m, a, lv, saw_def, stmts, k, bb) ==
  IF k > Len(stmts) THEN lv
  ELSE scan_stmts(m, a,
                  scan_uses(m, a, lv, saw_def, stmts[k].uses, 1, bb),
                  mark_defs(m, a, saw_def, stmts[k].defs, 1),
                  stmts, k + 1, bb)

\* Lines 579-627 for block BB.
scan_block(pg, m, a, lv, bb) ==
  scan_stmts(m, a,
             scan_phis(pg, m, a, lv, {}, pg.phis[bb], 1),
             mark_phi_results(m, a, {}, pg.phis[bb], 1),
             pg.stmts[bb], 1, bb)

\* Lines 577-628: FOR_EACH_BB from block BB on.
RECURSIVE scan_blocks(_, _, _, _, _)
scan_blocks(pg, m, a, lv, bb) ==
  IF bb >= pg.nblocks THEN lv
  ELSE scan_blocks(pg, m, a, scan_block(pg, m, a, lv, bb), bb + 1)

\* The live info calculate_live_on_entry holds when it reaches line 630.
live_initial_scan(pg, m, a) ==
  scan_blocks(pg, m, a, new_tree_live_info(m), 0)

\* The block defining the variable of partition I, as live_worklist
\* computes it (lines 492-494).
worklist_def_bb(pg, m, i) == def_bb(pg, partition_to_var(m, i).id)

\* Lines 496-499: the blocks of SET pushed in ascending order.
RECURSIVE push_ascending(_, _)
push_ascending(stk, set) ==
  IF set = {} THEN stk
  ELSE push_ascending(Append(stk, CHOOSE b \in set : \A c \in set : b <= c),
                      set \ {CHOOSE b \in set : \A c \in set : b <= c})

\* Variant of worklist_preds that marks a predecessor live without pushing
\* it on the stack.
RECURSIVE worklist_preds_no_push(_, _, _, _, _, _)
worklist_preds_no_push(lv, stk, i, def, preds, k) ==
  IF k > Len(preds) THEN [live |-> lv, stack |-> stk]
  ELSE IF preds[k] = ENTRY_BLOCK \/ preds[k] = def
            \/ preds[k] \in lv.livein[i]
       THEN worklist_preds_no_push(lv, stk, i, def, preds, k + 1)
       ELSE worklist_preds_no_push([lv EXCEPT !.livein[i] = @ \cup {preds[k]}],
                                   stk, i, def, preds, k + 1)

\* Variant of worklist_preds that pushes a predecessor whether or not it is
\* live on entry already.
RECURSIVE worklist_preds_push_again(_, _, _, _, _, _)
worklist_preds_push_again(lv, stk, i, def, preds, k) ==
  IF k > Len(preds) THEN [live |-> lv, stack |-> stk]
  ELSE IF preds[k] = ENTRY_BLOCK \/ preds[k] = def
       THEN worklist_preds_push_again(lv, stk, i, def, preds, k + 1)
       ELSE worklist_preds_push_again(
              [lv EXCEPT !.livein[i] = @ \cup {preds[k]}],
              Append(stk, preds[k]), i, def, preds, k + 1)

\* Variant of worklist_preds that does not stop at the defining block.
RECURSIVE worklist_preds_past_def(_, _, _, _, _, _)
worklist_preds_past_def(lv, stk, i, def, preds, k) ==
  IF k > Len(preds) THEN [live |-> lv, stack |-> stk]
  ELSE IF preds[k] = ENTRY_BLOCK \/ preds[k] \in lv.livein[i]
       THEN worklist_preds_past_def(lv, stk, i, def, preds, k + 1)
       ELSE worklist_preds_past_def(
              [lv EXCEPT !.livein[i] = @ \cup {preds[k]}],
              Append(stk, preds[k]), i, def, preds, k + 1)

\* Lines 506-517: the predecessor edges of the popped block from edge K on.
\* Result: [live, stack].
RECURSIVE worklist_preds(_, _, _, _, _, _)
worklist_preds(lv, stk, i, def, preds, k) ==
  IF k > Len(preds) THEN [live |-> lv, stack |-> stk]
  ELSE IF preds[k] = ENTRY_BLOCK \/ preds[k] = def
            \/ preds[k] \in lv.livein[i]
       THEN worklist_preds(lv, stk, i, def, preds, k + 1)
       ELSE worklist_preds([lv EXCEPT !.livein[i] = @ \cup {preds[k]}],
                           Append(stk, preds[k]), i, def, preds, k + 1)

\* The successors of block S.
succs(pg, src) == {b \in Blocks(pg) : src \in Range(pg.preds[b])}

\* Variant of exit_from_phis: the PHI arguments are not looked at.
exit_from_phis_none(pg, m, a, src) == {}

\* Lines 745-756: the partitions set in on_exit[S] by the PHI arguments.
exit_from_phis(pg, m, a, src) ==
  { var_to_partition(m, a, ar.def) :
      ar \in { x \in UNION { Range(ph.args) :
                       ph \in UNION { Range(pg.phis[b]) : b \in Blocks(pg) } } :
                 TREE_CODE(x.def) = "SSA_NAME" /\ x.src = src } }
  \ {NO_PARTITION}

\* Lines 759-768: the partitions set in on_exit[S] from the live-on-entry
\* sets of its successors.
exit_from_entry(pg, m, lv, src) ==
  { i \in 0..(num_var_partitions(m) - 1) :
      \E b \in lv.livein[i] : src \in Range(pg.preds[b]) }

\* The live info after calculate_live_on_exit.
calculate_live_on_exit(pg, m, a, lv) ==
  [lv EXCEPT !.liveout =
     [x \in Blocks(pg) |->
        exit_from_phis(pg, m, a, x) \cup exit_from_entry(pg, m, lv, x)]]

(***************************************************************************)
(* Coalesce list.  A chain of partition_pair_d nodes is a sequence of      *)
(* records [first_partition, second_partition, cost].                      *)
(***************************************************************************)
create_coalesce_list(m) ==
  [add_mode |-> TRUE,
   list |-> [x \in 0..(num_var_partitions(m) - 1) |-> <<>>]]

\* The number of nodes of CHAIN the search loop of find_partition_pair
\* walks past before it stops at P2 or at a greater second partition.
chain_before(chain, p2) ==
  Cardinality({ k \in DOMAIN chain : chain[k].second_partition < p2 })

chain_has(chain, p2) ==
  \E k \in DOMAIN chain : chain[k].second_partition = p2

\* find_partition_pair (cl, p1, p2, true) followed by node->cost += value,
\* on the chain list[p1] with p1 < p2.
chain_add(chain, p1, p2, value) ==
  IF chain_has(chain, p2)
  THEN [k \in DOMAIN chain |->
          IF chain[k].second_partition = p2
          THEN [chain[k] EXCEPT !.cost = @ + value]
          ELSE chain[k]]
  ELSE SubSeq(chain, 1, chain_before(chain, p2))
       \o << [first_partition |-> p1, second_partition |-> p2,
              cost |-> value] >>
       \o SubSeq(chain, chain_before(chain, p2) + 1, Len(chain))

\* add_coalesce without the normalisation of find_partition_pair: the pair is
\* filed under P1 whichever operand is smaller.
add_coalesce_unordered(c, p1, p2, value) ==
  IF p1 = p2 THEN c
  ELSE [c EXCEPT !.list[p1] = chain_add(@, p1, p2, value)]

\* The list after add_coalesce (cl, p1, p2, value), the list being in add
\* mode.
add_coalesce(c, p1, p2, value) ==
  IF p1 = p2 THEN c
  ELSE IF p2 < p1
       THEN [c EXCEPT !.list[p2] = chain_add(@, p2, p1, value)]
       ELSE [c EXCEPT !.list[p1] = chain_add(@, p1, p2, value)]

compare_pairs(n1, n2) == n2.cost - n1.cost

\* Lines 1173-1186: the chains of list[x], x from X on, linked into one
\* chain, each later chain in front of the earlier ones.
RECURSIVE flatten_chains(_, _, _)
flatten_chains(list, chain, x) ==
  IF x \notin DOMAIN list THEN chain
  ELSE flatten_chains(list, list[x] \o chain, x + 1)

\* The orders qsort may leave CHAIN in: every arrangement of its nodes in
\* which no node is followed by one that compares smaller.
qsort_results(chain) ==
  { [k \in DOMAIN chain |-> chain[perm[k]]] :
      perm \in { q \in [DOMAIN chain -> DOMAIN chain] :
                   /\ \A i, j \in DOMAIN chain : i # j => q[i] # q[j]
                   /\ \A i, j \in DOMAIN chain :
                        i < j => compare_pairs(chain[q[i]], chain[q[j]]) <= 0 } }

\* Variant of sort_two that leaves the two nodes as they are.
sort_two_no_swap(chain) == chain

\* Lines 1210-1221: the hand-written swap of a two-node chain.
sort_two(chain) ==
  IF chain[1].cost < chain[2].cost THEN <<chain[2], chain[1]>> ELSE chain

\* The chains list[0] may hold after sort_coalesce_list.
sorted_chains(chain) ==
  IF Len(chain) > 2 THEN qsort_results(chain)
  ELSE IF Len(chain) = 2 THEN {sort_two(chain)}
  ELSE {chain}

\* Variant of sort_coalesce_list that leaves the chains it has gathered in
\* place.
sort_coalesce_list_keep_chains(c, sorted) ==
  [add_mode |-> FALSE, list |-> [c.list EXCEPT ![0] = sorted]]

\* The list after sort_coalesce_list, SORTED being the order of list[0].
sort_coalesce_list(c, sorted) ==
  [add_mode |-> FALSE,
   list |-> [x \in DOMAIN c.list |-> IF x = 0 THEN sorted ELSE <<>>]]

\* pop_best_coalesce: [cl, ret, p1, p2]; p1 and p2 are left alone (here
\* NO_PARTITION) when the list is empty.
pop_best_coalesce(c) ==
  IF c.list[0] = <<>>
  THEN [cl |-> c, ret |-> NO_BEST_COALESCE,
        p1 |-> NO_PARTITION, p2 |-> NO_PARTITION]
  ELSE [cl |-> [c EXCEPT !.list[0] = Tail(@)],
        ret |-> c.list[0][1].cost,
        p1 |-> c.list[0][1].first_partition,
        p2 |-> c.list[0][1].second_partition]

(***************************************************************************)
(* Conflict graph (conflict-graph.c): the set of its arcs, each a set of   *)
(* two partitions.                                                         *)
(***************************************************************************)
conflict_graph_new == {}
conflict_graph_add(graph, reg1, reg2) == graph \cup {{reg1, reg2}}
conflict_graph_conflict_p(graph, reg1, reg2) == {reg1, reg2} \in graph

conflict_graph_merge_regs(graph, target, src) ==
  IF target = src THEN graph
  ELSE graph \cup { {target, other} :
                      other \in { r \in UNION graph : {src, r} \in graph
                                                        /\ r # src } }

(***************************************************************************)
(* build_tree_conflict_graph.  The scan state S is [graph, live, cl].      *)
(***************************************************************************)
\* The partitions on the list of a TPA class, walked from partition Y.
RECURSIVE tpa_list(_, _)
tpa_list(tpa, y) ==
  IF y = TPA_NONE THEN {}
  ELSE {y} \cup tpa_list(tpa, tpa_next_partition(tpa, y))

\* Lines 1270-1277: the arcs added for partition P of class FIRST against
\* the live partitions VEC.
class_conflicts(tpa, graph, vec, p, first) ==
  graph \cup { {p, y} : y \in tpa_list(tpa, tpa_first_partition(tpa, first))
                                \cap vec }

\* Variant of add_conflicts_if_valid that only clears the live bit.
add_conflicts_none(tpa, graph, m, a, vec, var) ==
  [graph |-> graph, vec |-> vec \ {var_to_partition(m, a, var)}]

\* add_conflicts_if_valid: [graph, vec].
add_conflicts_if_valid(tpa, graph, m, a, vec, var) ==
  IF var_to_partition(m, a, var) = NO_PARTITION
  THEN [graph |-> graph, vec |-> vec]
  ELSE IF tpa_find_tree(tpa, var_to_partition(m, a, var)) = TPA_NONE
  THEN [graph |-> graph, vec |-> vec \ {var_to_partition(m, a, var)}]
  ELSE [graph |-> class_conflicts(tpa, graph,
                                  vec \ {var_to_partition(m, a, var)},
                                  var_to_partition(m, a, var),
                                  tpa_find_tree(tpa,
                                                var_to_partition(m, a, var))),
        vec |-> vec \ {var_to_partition(m, a, var)}]

\* Lines 1342-1350: the partition of an operand of a MODIFY_EXPR.
operand_partition(m, a, t) ==
  IF DECL_P(t) \/ TREE_CODE(t) = "SSA_NAME"
  THEN var_to_partition(m, a, t)
  ELSE NO_PARTITION

is_a_copy(m, a, st) ==
  /\ st.code = "MODIFY_EXPR"
  /\ operand_partition(m, a, st.lhs) # NO_PARTITION
  /\ operand_partition(m, a, st.rhs) # NO_PARTITION

\* Lines 1354-1365, R being the result of add_conflicts_if_valid on the
\* live set without p2.
copy_finish(s, r, p1, p2) ==
  [graph |-> r.graph,
   live |-> r.vec \cup {p2},
   cl |-> IF s.cl # NULL_LIST THEN add_coalesce(s.cl, p1, p2, 1) ELSE s.cl]

\* Variant of scan_copy that leaves the source of the copy live while the
\* conflicts of the destination are added.
scan_copy_rhs_live(tpa, m, a, s, st) ==
  copy_finish(s,
              add_conflicts_if_valid(tpa, s.graph, m, a, s.live, st.lhs),
              operand_partition(m, a, st.lhs),
              operand_partition(m, a, st.rhs))

\* Lines 1352-1366: a copy between two partitions.
scan_copy(tpa, m, a, s, st) ==
  copy_finish(s,
              add_conflicts_if_valid(tpa, s.graph, m, a,
                                     s.live \ {operand_partition(m, a, st.rhs)},
                                     st.lhs),
              operand_partition(m, a, st.lhs),
              operand_partition(m, a, st.rhs))

\* Lines 1372-1375: the defs of a statement from def K on.
RECURSIVE scan_defs(_, _, _, _, _, _, _)
scan_defs_next(s, r) == [s EXCEPT !.graph = r.graph, !.live = r.vec]
scan_defs(tpa, m, a, s, defs, k, n) ==
  IF k > n THEN s
  ELSE scan_defs(tpa, m, a,
                 scan_defs_next(s,
                   add_conflicts_if_valid(tpa, s.graph, m, a, s.live,
                                          SsaName(defs[k]))),
                 defs, k + 1, n)

\* Lines 1377-1380: the uses of a statement made live.
scan_live_uses(m, a, s, uses) ==
  [s EXCEPT !.live =
     @ \cup ({ var_to_partition(m, a, SsaName(uses[k])) : k \in DOMAIN uses }
             \ {NO_PARTITION})]

\* Lines 1320-1382 for one statement.
scan_conflict_stmt(tpa, m, a, s, st) ==
  IF is_a_copy(m, a, st)
  THEN scan_copy(tpa, m, a, s, st)
  ELSE scan_live_uses(m, a,
                      scan_defs(tpa, m, a, s, st.defs, 1, Len(st.defs)),
                      st.uses)

\* Lines 1318-1382: the statements of a block from statement K back to the
\* first.
RECURSIVE scan_conflict_stmts(_, _, _, _, _, _)
scan_conflict_stmts(tpa, m, a, s, stmts, k) ==
  IF k < 1 THEN s
  ELSE scan_conflict_stmts(tpa, m, a,
                           scan_conflict_stmt(tpa, m, a, s, stmts[k]),
                           stmts, k - 1)

\* Variant of scan_unused_phis that adds nothing for PHI results.
RECURSIVE scan_unused_phis_none(_, _, _, _, _, _)
scan_unused_phis_none(tpa, m, a, s, phis, k) == s

\* Lines 1389-1396: the PHI results of a block from PHI K on.
RECURSIVE scan_unused_phis(_, _, _, _, _, _)
scan_unused_phis(tpa, m, a, s, phis, k) ==
  IF k > Len(phis) THEN s
  ELSE IF var_to_partition(m, a, phis[k].result) # NO_PARTITION
          /\ var_to_partition(m, a, phis[k].result) \notin s.live
       THEN scan_unused_phis(tpa, m, a,
              [s EXCEPT !.graph =
                 add_conflicts_if_valid(tpa, s.graph, m, a, s.live,
                                        phis[k].result).graph],
              phis, k + 1)
       ELSE scan_unused_phis(tpa, m, a, s, phis, k + 1)

\* Variant of scan_live_at_top that adds no arc.
scan_live_at_top_none(tpa, s) == s

\* Lines 1412-1434: every two partitions of one TPA class that are still
\* live conflict.
scan_live_at_top(tpa, s) ==
  [s EXCEPT !.graph =
     @ \cup { {q[1], q[2]} :
                q \in { r \in s.live \X s.live :
                          /\ r[1] # r[2]
                          /\ tpa_find_tree(tpa, r[1]) # TPA_NONE
                          /\ tpa_find_tree(tpa, r[1])
                               = tpa_find_tree(tpa, r[2]) } }]

\* Lines 1310-1434 for block BB.
scan_conflict_block(pg, tpa, m, a, lv, s, bb) ==
  scan_live_at_top(tpa,
    scan_unused_phis(tpa, m, a,
      scan_conflict_stmts(tpa, m, a,
                          [s EXCEPT !.live = lv.liveout[bb]],
                          pg.stmts[bb], Len(pg.stmts[bb])),
      pg.phis[bb], 1))

\* Lines 1310-1435: FOR_EACH_BB from block BB on.
RECURSIVE scan_conflict_blocks(_, _, _, _, _, _, _)
scan_conflict_blocks(pg, tpa, m, a, lv, s, bb) ==
  IF bb >= pg.nblocks THEN s
  ELSE scan_conflict_blocks(pg, tpa, m, a, lv,
                            scan_conflict_block(pg, tpa, m, a, lv, s, bb),
                            bb + 1)

\* build_tree_conflict_graph: [graph, live, cl], graph being the result and
\* cl the coalesce list with the copies added.
build_tree_conflict_graph(pg, m, a, lv, tpa, c) ==
  IF tpa_num_trees(tpa) = 0
  THEN [graph |-> conflict_graph_new, live |-> {}, cl |-> c]
  ELSE scan_conflict_blocks(pg, tpa, m, a, lv,
                            [graph |-> conflict_graph_new, live |-> {},
                             cl |-> c], 0)

\* Variant of tpa_remove_partition that also forgets the class of the
\* partition it unlinks.
tpa_remove_partition_unmap(tpa, tree_index, partition_index) ==
  IF tpa_first_partition(tpa, tree_index) = partition_index
  THEN [tpa EXCEPT !.first_partition[tree_index + 1] =
                     tpa.next_partition[partition_index],
                   !.partition_to_tree_map[partition_index] = TPA_NONE]
  ELSE [tpa EXCEPT !.next_partition =
          [i \in DOMAIN @ |->
             IF i \in tpa_list(tpa, tpa_first_partition(tpa, tree_index))
                /\ @[i] = partition_index
             THEN @[partition_index]
             ELSE @[i]],
                   !.partition_to_tree_map[partition_index] = TPA_NONE]

\* Variant of tpa_remove_partition that leaves the lists as they are.
tpa_remove_partition_none(tpa, tree_index, partition_index) == tpa

\* The TPA after tpa_remove_partition (tpa, tree_index, partition_index).
tpa_remove_partition(tpa, tree_index, partition_index) ==
  IF tpa_first_partition(tpa, tree_index) = partition_index
  THEN [tpa EXCEPT !.first_partition[tree_index + 1] =
                     tpa.next_partition[partition_index]]
  ELSE [tpa EXCEPT !.next_partition =
          [i \in DOMAIN @ |->
             IF i \in tpa_list(tpa, tpa_first_partition(tpa, tree_index))
                /\ @[i] = partition_index
             THEN @[partition_index]
             ELSE @[i]]]

(***************************************************************************)
(* tpa_compact.                                                            *)
(***************************************************************************)
\* VARRAY_INT (va, i): the varray is allocated cleared with room for at
\* least 40 elements, so an element never pushed reads as 0.
VARRAY_INT(va, i) == IF i + 1 \in DOMAIN va THEN va[i + 1] ELSE 0

\* Lines 858-859: the list of tree I has one partition only.
tpa_single(tpa, i) ==
  tpa_next_partition(tpa, VARRAY_INT(tpa.first_partition, i)) = NO_PARTITION

\* Lines 856-861 and 892-897: LAST moves down to the nearest list above LO
\* that has more than one partition, or to LO.
RECURSIVE tpa_compact_last(_, _, _)
tpa_compact_last(tpa, lastx, lo) ==
  IF lastx > lo
  THEN IF tpa_single(tpa, lastx)
       THEN tpa_compact_last(tpa, lastx - 1, lo)
       ELSE lastx
  ELSE lastx

\* Variant of tpa_compact_swap that exchanges the two lists and leaves
\* partition_to_tree_map as it is.
tpa_compact_swap_no_map(tpa, x, lastx) ==
  [tpa EXCEPT !.trees[lastx + 1] = tpa.trees[x + 1],
              !.first_partition[lastx + 1] = tpa.first_partition[x + 1],
              !.trees[x + 1] = tpa.trees[lastx + 1],
              !.first_partition[x + 1] = tpa.first_partition[lastx + 1]]

\* Lines 872-889: list X, of one partition, changes places with list LAST.
tpa_compact_swap(tpa, x, lastx) ==
  [tpa EXCEPT !.trees[lastx + 1] = tpa.trees[x + 1],
              !.first_partition[lastx + 1] = tpa.first_partition[x + 1],
              !.trees[x + 1] = tpa.trees[lastx + 1],
              !.first_partition[x + 1] = tpa.first_partition[lastx + 1],
              !.partition_to_tree_map =
                 [p \in DOMAIN @ |->
                    IF p \in tpa_list(tpa, tpa.first_partition[lastx + 1])
                    THEN x
                    ELSE IF p = tpa.first_partition[x + 1] THEN lastx
                    ELSE @[p]]]

\* Lines 863-899: the while loop.  Result: [tpa, x, last].
RECURSIVE tpa_compact_loop(_, _, _)

\* Lines 891-897, the swap being done.
tpa_compact_swapped(tpa, x, lastx) ==
  tpa_compact_loop(tpa, x + 1, tpa_compact_last(tpa, lastx - 1, x))

tpa_compact_loop(tpa, x, lastx) ==
  IF x < lastx
  THEN IF tpa_single(tpa, x)
       THEN tpa_compact_swapped(tpa_compact_swap(tpa, x, lastx), x, lastx)
       ELSE tpa_compact_loop(tpa, x + 1, lastx)
  ELSE [tpa |-> tpa, x |-> x, last |-> lastx]

\* Lines 901-906.
tpa_compact_return(r) ==
  [tpa |-> [r.tpa EXCEPT
              !.uncompressed_num = r.tpa.num_trees,
              !.num_trees = IF tpa_single(r.tpa, r.x) THEN r.x ELSE r.x + 1],
   ret |-> r.last]

\* Result: [tpa, ret], the TPA after the call and the value returned.
tpa_compact(tpa) ==
  tpa_compact_return(
    tpa_compact_loop(tpa, 0,
                     tpa_compact_last(tpa, tpa.num_trees - 1, 0)))

(***************************************************************************)
(* coalesce_tpa_members.  The world W is [map, ann, tpa, graph, result];   *)
(* result names the outcome the debug dump reports.                        *)
(***************************************************************************)
NULL_LOCALS == [x |-> 0, y |-> TPA_NONE, z |-> TPA_NONE, p1 |-> NO_PARTITION,
                var |-> NULL_TREE]

World(m, a, t, g) ==
  [map |-> m, ann |-> a, tpa |-> t, graph |-> g, result |-> "none"]

\* Variant of list_union_done that drops the compaction tables of the map.
list_union_done_reset(w, u, x, y) ==
  [map |-> compact_reset(u.map), ann |-> u.ann,
   tpa |-> tpa_remove_partition(w.tpa, tpa_find_tree(w.tpa, y), y),
   graph |-> conflict_graph_merge_regs(w.graph, x, y),
   result |-> "success"]

\* Lines 1510-1523: the union of partitions X and Y gave U.
list_union_done(w, u, x, y) ==
  IF u.ret = x
  THEN [map |-> u.map, ann |-> u.ann,
        tpa |-> tpa_remove_partition(w.tpa, tpa_find_tree(w.tpa, y), y),
        graph |-> conflict_graph_merge_regs(w.graph, x, y),
        result |-> "success"]
  ELSE [map |-> u.map, ann |-> u.ann,
        tpa |-> tpa_remove_partition(w.tpa, tpa_find_tree(w.tpa, x), x),
        graph |-> conflict_graph_merge_regs(w.graph, y, x),
        result |-> "success"]

\* Lines 1500-1508.
list_union(w, u, x, y) ==
  IF u.ret = NO_PARTITION
  THEN [w EXCEPT !.map = u.map, !.ann = u.ann, !.result = "union_failed"]
  ELSE list_union_done(w, u, x, y)

\* Lines 1489-1528: VAR and TMP are the variables of the popped partitions,
\* X and Y their current partitions.
list_try(w, var, tmp, x, y) ==
  IF x = y THEN [w EXCEPT !.result = "already_coalesced"]
  ELSE IF conflict_graph_conflict_p(w.graph, x, y)
  THEN [w EXCEPT !.result = "conflict"]
  ELSE list_union(w, var_union(w.map, w.ann, var, tmp), x, y)

\* The loop body without the test of the TPA classes (lines 1470-1484).
list_pair_any_class(w, x, y) ==
  list_try(w, partition_to_var(w.map, x), partition_to_var(w.map, y),
           var_to_partition(w.map, w.ann, partition_to_var(w.map, x)),
           var_to_partition(w.map, w.ann, partition_to_var(w.map, y)))

\* Variant of list_pair that tests only w != z (line 1473 without the two
\* TPA_NONE tests): two partitions that are both in no class are united in
\* the map; there is no class list to take the absorbed one off.
list_pair_classless(w, x, y) ==
  IF tpa_find_tree(w.tpa, x) # tpa_find_tree(w.tpa, y)
  THEN [w EXCEPT !.result = "non_matching_tpa"]
  ELSE IF tpa_find_tree(w.tpa, x) = TPA_NONE
  THEN [w EXCEPT
          !.map = var_union(w.map, w.ann, partition_to_var(w.map, x),
                            partition_to_var(w.map, y)).map,
          !.ann = var_union(w.map, w.ann, partition_to_var(w.map, x),
                            partition_to_var(w.map, y)).ann,
          !.result = "success"]
  ELSE list_try(w, partition_to_var(w.map, x), partition_to_var(w.map, y),
                var_to_partition(w.map, w.ann, partition_to_var(w.map, x)),
                var_to_partition(w.map, w.ann, partition_to_var(w.map, y)))

\* Lines 1470-1528: the body of the while loop for the popped pair (X, Y).
list_pair(w, x, y) ==
  IF tpa_find_tree(w.tpa, x) # tpa_find_tree(w.tpa, y)
     \/ tpa_find_tree(w.tpa, x) = TPA_NONE
     \/ tpa_find_tree(w.tpa, y) = TPA_NONE
  THEN [w EXCEPT !.result = "non_matching_tpa"]
  ELSE list_try(w, partition_to_var(w.map, x), partition_to_var(w.map, y),
                var_to_partition(w.map, w.ann, partition_to_var(w.map, x)),
                var_to_partition(w.map, w.ann, partition_to_var(w.map, y)))

\* Lines 1586-1599: the union of VAR's partition with Z's gave U.  Result:
\* the world and the new p1.
trees_union_done(w, u, c) ==
  IF u.ret = c.p1
  THEN [map |-> u.map, ann |-> u.ann,
        tpa |-> tpa_remove_partition(w.tpa, c.x, c.z),
        graph |-> conflict_graph_merge_regs(w.graph, u.ret, c.z),
        result |-> "success", p1 |-> c.p1]
  ELSE [map |-> u.map, ann |-> u.ann,
        tpa |-> tpa_remove_partition(w.tpa, c.x, c.z),
        graph |-> conflict_graph_merge_regs(w.graph, u.ret, c.y),
        result |-> "success", p1 |-> u.ret]

\* Lines 1579-1585.
trees_union(w, u, c) ==
  IF u.ret = NO_PARTITION
  THEN [map |-> u.map, ann |-> u.ann, tpa |-> w.tpa, graph |-> w.graph,
        result |-> "union_failed", p1 |-> c.p1]
  ELSE trees_union_done(w, u, c)

\* Lines 1553-1606: the body of the for loop over z; TMP is the variable of
\* partition z and P2 its current partition.
trees_try(w, c, tmp, p2) ==
  IF tmp = c.var
  THEN [map |-> w.map, ann |-> w.ann,
        tpa |-> tpa_remove_partition(w.tpa, c.x, c.z), graph |-> w.graph,
        result |-> "already_coalesced", p1 |-> c.p1]
  ELSE IF conflict_graph_conflict_p(w.graph, c.p1, p2)
  THEN [map |-> w.map, ann |-> w.ann, tpa |-> w.tpa, graph |-> w.graph,
        result |-> "conflict", p1 |-> c.p1]
  ELSE IF tpa_find_tree(w.tpa, c.y) = TPA_NONE
          \/ tpa_find_tree(w.tpa, c.z) = TPA_NONE
  THEN [map |-> w.map, ann |-> w.ann, tpa |-> w.tpa, graph |-> w.graph,
        result |-> "non_tpa_member", p1 |-> c.p1]
  ELSE trees_union(w, var_union(w.map, w.ann, c.var, tmp), c)

trees_pair(w, c) ==
  trees_try(w, c, partition_to_var(w.map, c.z),
            var_to_partition(w.map, w.ann, partition_to_var(w.map, c.z)))

(***************************************************************************)
(* SpecMap: the partition map under arbitrary sequences of var_union,      *)
(* change_partition_var and compact_var_map calls.                         *)
(***************************************************************************)
\* Assignments of the versions to their underlying declarations.
VarTables ==
  { [v \in 1..NumSSA |-> 1],
    [v \in 1..NumSSA |-> 1 + (v % 2)],
    [v \in 1..NumSSA |-> IF v <= 2 THEN 1 ELSE 1 + v] }

\* One "v = constant" statement for every version of R from V upwards.
RECURSIVE RegistrationStmts(_, _)
RegistrationStmts(R, v) ==
  IF v > NumSSA THEN <<>>
  ELSE IF v \in R THEN <<ConstStmt(v)>> \o RegistrationStmts(R, v + 1)
  ELSE RegistrationStmts(R, v + 1)

\* A one-block procedure that defines exactly the versions of R.
RegistrationProgram(R, tab) ==
  [num_ssa_names |-> NumSSA,
   ssa_name_var |-> tab,
   nblocks |-> 1,
   preds |-> [b \in {0} |-> <<ENTRY_BLOCK>>],
   phis |-> [b \in {0} |-> <<>>],
   stmts |-> [b \in {0} |-> RegistrationStmts(R, 1)]]

\* The sets of versions the procedure references: all, or all but one.
RegisteredSets == {1..NumSSA, 1..(NumSSA - 1), 2..NumSSA}

Elements == 0..NumSSA
MapOperands == {SsaName(v) : v \in 1..NumSSA} \cup {Decl(d) : d \in {1, 2}}

\* The union-closure after joining elements e1 and e2.
Join(j, e1, e2) ==
  LET lo == IF j[e1] < j[e2] THEN j[e1] ELSE j[e2] IN
  [x \in DOMAIN j |-> IF j[x] = j[e1] \/ j[x] = j[e2] THEN lo ELSE j[x]]

InitMap ==
  /\ \E R \in RegisteredSets : \E tab \in VarTables :
       prog = RegistrationProgram(R, tab)
  /\ map = create_ssa_var_map(prog)
  /\ ann = InitAnn
  /\ joined = [x \in Elements |-> x]
  /\ nops = 0
  /\ last = [op |-> "init", ret |-> 0]
  /\ pc = "map"
  /\ live = NULL_LIVE
  /\ stack = <<>>
  /\ cur = NO_PARTITION
  /\ cl = NULL_LIST
  /\ hist = NULL_HIST
  /\ tp = NULL_TPA
  /\ cg = conflict_graph_new
  /\ co = NULL_LOCALS

VarUnion(var1, var2) ==
  /\ pc = "map"
  /\ nops < MaxOps
  /\ var_union_ok(map, ann, var1, var2) = TRUE
  /\ map' = var_union(map, ann, var1, var2).map
  /\ ann' = var_union(map, ann, var1, var2).ann
  /\ last' = [op |-> "var_union", ret |-> var_union(map, ann, var1, var2).ret]
  /\ joined' = Join(joined, union_operand(map, ann, var1),
                    union_operand(map, ann, var2))
  /\ nops' = nops + 1
  /\ UNCHANGED <<prog, pc, liveVars, listVars, coVars>>

ChangePartitionVar(var, part) ==
  /\ pc = "map"
  /\ nops < MaxOps
  /\ change_partition_var_ok(map, var, part) = TRUE
  /\ map' = change_partition_var(map, ann, var, part).map
  /\ ann' = change_partition_var(map, ann, var, part).ann
  /\ last' = [op |-> "change_partition_var", ret |-> part]
  /\ nops' = nops + 1
  /\ UNCHANGED <<prog, joined, pc, liveVars, listVars, coVars>>

CompactVarMap(flags) ==
  /\ pc = "map"
  /\ nops < MaxOps
  /\ compact_var_map_ok(map, ann, flags) = TRUE
  /\ map' = compact_var_map(map, ann, flags).map
  /\ ann' = compact_var_map(map, ann, flags).ann
  /\ last' = [op |-> "compact_var_map", ret |-> flags]
  /\ nops' = nops + 1
  /\ UNCHANGED <<prog, joined, pc, liveVars, listVars, coVars>>

NextMap ==
  \/ \E var1, var2 \in MapOperands : VarUnion(var1, var2)
  \/ \E d \in {1, 2} : \E part \in 0..NumSSA :
       ChangePartitionVar(Decl(d), part)
  \/ \E flags \in {VARMAP_NORMAL, VARMAP_NO_SINGLE_DEFS} : CompactVarMap(flags)

SpecMap == InitMap /\ [][NextMap]_vars


(***************************************************************************)
(* Properties of the partition map (SpecMap).                              *)
(***************************************************************************)
Registered == referenced_versions(prog)
Compacted(m) == m.partition_to_compact # NULL_ARRAY
\* The partition number version V resolves to.
PartitionOf(m, a, v) == var_to_partition(m, a, SsaName(v))
\* The union-find class version V belongs to.
ClassOf(m, v) == partition_find(m.var_partition, v)

\* C1: after any sequence of var_union calls, on a compacted or an
\* uncompacted map, two registered SSA versions are in the same union-find
\* class iff they are connected in the closure of the pairs unioned so far,
\* and whenever both resolve to a partition number (neither was left out by
\* a compaction) the numbers are equal iff the versions are connected.
\* Since the closure only grows, no union is undone by a later union or
\* compaction.
C1_UnionClosure ==
  \A v1, v2 \in Registered :
    /\ (ClassOf(map, v1) = ClassOf(map, v2)) <=> (joined[v1] = joined[v2])
    /\ (PartitionOf(map, ann, v1) # NO_PARTITION
        /\ PartitionOf(map, ann, v2) # NO_PARTITION)
         => ((PartitionOf(map, ann, v1) = PartitionOf(map, ann, v2))
               <=> (joined[v1] = joined[v2]))

\* A compacted map in which a union has just joined three distinct versions
\* (transitively) into one numbered partition while another version stays out.
C1_Witness ==
  /\ last.op = "var_union"
  /\ Compacted(map)
  /\ \E v1, v2, v3 \in Registered :
       /\ v1 # v2 /\ joined[v1] = joined[v2]
       /\ PartitionOf(map, ann, v1) # NO_PARTITION
       /\ PartitionOf(map, ann, v1) = PartitionOf(map, ann, v2)
       /\ joined[v3] # joined[v1]

\* C3: compact_var_map never changes membership: two registered versions
\* that both have a partition number after the call have the same number iff
\* they were in the same union-find class before it, and, when the map was
\* already compacted and both had a number, iff they had the same number
\* before it (recompaction, with the same or with different flags).
C3_CompactKeepsMembership ==
  [][ last'.op = "compact_var_map" =>
        \A v1, v2 \in Registered :
          (PartitionOf(map', ann', v1) # NO_PARTITION
           /\ PartitionOf(map', ann', v2) # NO_PARTITION)
          => /\ (ClassOf(map, v1) = ClassOf(map, v2))
                  <=> (PartitionOf(map', ann', v1) = PartitionOf(map', ann', v2))
             /\ (PartitionOf(map, ann, v1) # NO_PARTITION
                 /\ PartitionOf(map, ann, v2) # NO_PARTITION)
                => ((PartitionOf(map, ann, v1) = PartitionOf(map, ann, v2))
                     <=> (PartitionOf(map', ann', v1)
                            = PartitionOf(map', ann', v2))) ]_vars

\* After a compaction, two joined versions share one number and a third,
\* retained version has another.
C3_Witness ==
  /\ last.op = "compact_var_map"
  /\ \E v1, v2, v3 \in Registered :
       /\ v1 # v2
       /\ PartitionOf(map, ann, v1) # NO_PARTITION
       /\ PartitionOf(map, ann, v1) = PartitionOf(map, ann, v2)
       /\ PartitionOf(map, ann, v3) # NO_PARTITION
       /\ PartitionOf(map, ann, v3) # PartitionOf(map, ann, v1)

\* The referenced union-find representatives of map M.
ReferencedReps(m) ==
  { r \in 0..(m.partition_size - 1) :
      partition_find(m.var_partition, r) = r /\ m.partition_to_var[r] # NULL_TREE }

\* C7: right after compact_var_map the retained partitions are numbered
\* exactly 0..num_partitions-1, partition_to_compact and compact_to_partition
\* are mutually inverse on them, every raw partition that is not a referenced
\* representative maps to NO_PARTITION, and without VARMAP_NO_SINGLE_DEFS
\* every referenced representative is retained.
C7_CompactDense ==
  (last.op = "compact_var_map" /\ Compacted(map)) =>
    LET ptc == map.partition_to_compact
        ctp == map.compact_to_partition
        retained == {r \in DOMAIN ptc : ptc[r] # NO_PARTITION}
    IN /\ DOMAIN ptc = 0..(map.partition_size - 1)
       /\ DOMAIN ctp = 0..(map.num_partitions - 1)
       /\ Cardinality(retained) = map.num_partitions
       /\ \A r \in retained :
            ptc[r] \in 0..(map.num_partitions - 1) /\ ctp[ptc[r]] = r
       /\ \A c \in 0..(map.num_partitions - 1) :
            ctp[c] \in retained /\ ptc[ctp[c]] = c
       /\ retained \subseteq ReferencedReps(map)
       /\ (last.ret = VARMAP_NORMAL => retained = ReferencedReps(map))

\* A compaction that retained at least two partitions and dropped a raw
\* partition number lying between two retained ones.
C7_Witness ==
  /\ last.op = "compact_var_map"
  /\ Compacted(map)
  /\ map.num_partitions >= 2
  /\ \E r1, r2, r3 \in DOMAIN map.partition_to_compact :
       /\ r1 < r2 /\ r2 < r3
       /\ map.partition_to_compact[r1] # NO_PARTITION
       /\ map.partition_to_compact[r2] = NO_PARTITION
       /\ map.partition_to_compact[r3] # NO_PARTITION

\* The raw partition behind partition number P of the map.
Raw(p) == IF Compacted(map) THEN map.compact_to_partition[p] ELSE p

\* C15: after change_partition_var (var, p) on any map, compacted or not,
\* partition_to_var[raw(p)] is var, and var's side data has out_of_ssa_tag
\* set and holds partition p.
C15_RepresentativeAnyMap ==
  [][\A d \in DeclIds :
       (/\ last'.op = "change_partition_var"
        /\ ChangePartitionVar(Decl(d), last'.ret)) =>
         /\ map'.partition_to_var[Raw(last'.ret)] = Decl(d)
         /\ ann'[d].out_of_ssa_tag
         /\ ann'[d].partition = last'.ret]_vars

\* What lines 272-284 do: change_partition_var (var, p) always sets
\* out_of_ssa_tag and partition p in var's side data; the write to
\* partition_to_var is made only under "if (map->compact_to_partition)", at
\* compact_to_partition[p], so that on a map that is not compacted the map,
\* and with it the representative of p, stays as it was, against the
\* comment at lines 268-270.
C15_RepresentativeWhenCompacted ==
  [][\A d \in DeclIds :
       (/\ last'.op = "change_partition_var"
        /\ ChangePartitionVar(Decl(d), last'.ret)) =>
         /\ ann' = [ann EXCEPT ![d].out_of_ssa_tag = TRUE,
                               ![d].partition = last'.ret]
         /\ IF Compacted(map)
            THEN map' = [map EXCEPT
                           !.partition_to_var[map.compact_to_partition[last'.ret]]
                              = Decl(d)]
            ELSE map' = map]_vars

\* change_partition_var has just made a declaration the representative of a
\* partition whose compact number differs from its raw number.
C15_Witness ==
  /\ last.op = "change_partition_var"
  /\ Compacted(map)
  /\ Raw(last.ret) # last.ret
  /\ DECL_P(partition_to_var(map, last.ret))
  /\ var_to_partition(map, ann, partition_to_var(map, last.ret)) = last.ret

\* C16: after var_union of two declarations of which exactly one is
\* DECL_IGNORED_P, in either order, the representative of the partition
\* returned is the declaration that is not ignored; and after var_union of
\* a declaration and an SSA name the representative is the declaration.
C16_UserVariableRepresents ==
  [][\A var1, var2 \in MapOperands :
       (/\ last'.op = "var_union"
        /\ last'.ret # NO_PARTITION
        /\ VarUnion(var1, var2)) =>
         /\ (/\ DECL_P(var1)
             /\ DECL_P(var2)
             /\ DECL_IGNORED_P(var1) # DECL_IGNORED_P(var2))
              => (partition_to_var(map', last'.ret)
                    = IF DECL_IGNORED_P(var1) THEN var2 ELSE var1)
         /\ (DECL_P(var1) /\ ~ DECL_P(var2))
              => (partition_to_var(map', last'.ret) = var1)
         /\ (DECL_P(var2) /\ ~ DECL_P(var1))
              => (partition_to_var(map', last'.ret) = var2)]_vars

\* The declaration behind raw partition R of map M: its variable, or the
\* declaration that variable is a version of.
Underlying(m, r) ==
  IF TREE_CODE(m.partition_to_var[r]) = "SSA_NAME"
  THEN SSA_NAME_VAR(m.partition_to_var[r]).id
  ELSE m.partition_to_var[r].id

\* The referenced partitions of map M with the same declaration behind them
\* as R.
Siblings(m, r) ==
  { q \in ReferencedReps(m) : Underlying(m, q) = Underlying(m, r) }

\* C20: right after compact_var_map with VARMAP_NO_SINGLE_DEFS a referenced
\* partition has a compact number iff at least two referenced partitions
\* have its underlying declaration; right after compact_var_map without the
\* flag every referenced partition has one.
C20_NoSingleDefs ==
  (last.op = "compact_var_map") =>
    /\ Compacted(map)
    /\ \A r \in ReferencedReps(map) :
         (map.partition_to_compact[r] # NO_PARTITION)
           <=> IF last.ret = VARMAP_NO_SINGLE_DEFS
               THEN Cardinality(Siblings(map, r)) >= 2
               ELSE TRUE

\* compact_var_map with VARMAP_NO_SINGLE_DEFS has kept the two partitions
\* of one declaration and dropped the only partition of another.
C20_Witness ==
  /\ last.op = "compact_var_map"
  /\ last.ret = VARMAP_NO_SINGLE_DEFS
  /\ \E r, q \in ReferencedReps(map) :
       /\ map.partition_to_compact[r] # NO_PARTITION
       /\ map.partition_to_compact[q] = NO_PARTITION
  /\ map.num_partitions = 2

(***************************************************************************)
(* SpecTpa: root_var_init, type_var_init and tpa_compact on the maps that  *)
(* var_union, change_partition_var and compact_var_map calls lead to, the  *)
(* versions and the representatives being of every kind of declaration.    *)
(***************************************************************************)
\* Assignments of the versions to their underlying declarations: two
\* temporaries of one type; a temporary, a user variable and a parameter; a
\* register variable, a function result and a temporary.  No version is of
\* a volatile declaration or of one with storage assigned.
TpaTables ==
  { [v \in 1..NumSSA |-> 1],
    [v \in 1..NumSSA |-> IF v % 2 = 1 THEN 1 ELSE 3],
    [v \in 1..NumSSA |-> IF v % 3 = 1 THEN 1 ELSE IF v % 3 = 2 THEN 2 ELSE 4],
    [v \in 1..NumSSA |-> IF v % 3 = 1 THEN 6 ELSE IF v % 3 = 2 THEN 7 ELSE 3] }

InitTpa ==
  /\ \E tab \in TpaTables : prog = RegistrationProgram(1..NumSSA, tab)
  /\ map = create_ssa_var_map(prog)
  /\ ann = InitAnn
  /\ joined = [x \in Elements |-> x]
  /\ nops = 0
  /\ last = [op |-> "init", ret |-> 0]
  /\ pc = "map"
  /\ live = NULL_LIVE
  /\ stack = <<>>
  /\ cur = NO_PARTITION
  /\ cl = NULL_LIST
  /\ hist = NULL_HIST
  /\ tp = NULL_TPA
  /\ cg = conflict_graph_new
  /\ co = NULL_LOCALS

\* Lines 915-978.
RootVarInitMap ==
  /\ pc = "map"
  /\ root_var_init(map, ann).ok
  /\ tp' = root_var_init(map, ann).rv
  /\ ann' = root_var_init(map, ann).ann
  /\ pc' = "tpa"
  /\ last' = [op |-> "root_var_init", ret |-> 0]
  /\ UNCHANGED <<prog, map, joined, nops, liveVars, listVars, cg, co>>

\* Lines 984-1045.
TypeVarInit ==
  /\ pc = "map"
  /\ type_var_init(map, ann).ok
  /\ tp' = type_var_init(map, ann).tv
  /\ pc' = "tpa"
  /\ last' = [op |-> "type_var_init", ret |-> 0]
  /\ UNCHANGED <<prog, mapVars, liveVars, listVars, cg, co>>

\* Lines 849-909.
TpaCompact ==
  /\ pc = "tpa"
  /\ ~ tp.null
  /\ tp' = tpa_compact(tp).tpa
  /\ pc' = "tpa_compact"
  /\ last' = [op |-> "tpa_compact", ret |-> tpa_compact(tp).ret,
              before |-> tp.trees]
  /\ UNCHANGED <<prog, mapVars, liveVars, listVars, cg, co>>

\* The operands of the calls made on the map: the versions and every
\* declaration.
TpaOperands == {SsaName(v) : v \in 1..NumSSA} \cup {Decl(d) : d \in DeclIds}

\* The calls made on the map before an associator is built: var_union of
\* versions and declarations, change_partition_var of any declaration,
\* whether it has a partition already or not, and compact_var_map.
NextTpa ==
  \/ /\ nops < TpaOps
     /\ \E var1, var2 \in TpaOperands : VarUnion(var1, var2)
  \/ /\ nops < TpaOps
     /\ \E d \in DeclIds : \E part \in 0..NumSSA :
          ChangePartitionVar(Decl(d), part)
  \/ /\ nops < TpaOps
     /\ \E flags \in {VARMAP_NORMAL, VARMAP_NO_SINGLE_DEFS} :
          CompactVarMap(flags)
  \/ RootVarInitMap
  \/ TypeVarInit
  \/ TpaCompact

SpecTpa == InitTpa /\ [][NextTpa]_vars

(***************************************************************************)
(* SpecCL: a coalesce list over ListPartitions partitions under            *)
(* add_coalesce calls, one sort_coalesce_list and pop_best_coalesce calls.  *)
(***************************************************************************)
ListMap == [init_var_map(ListPartitions) EXCEPT !.num_partitions = ListPartitions]
ListValues == {1, 2}

InitCL ==
  /\ prog = RegistrationProgram({}, [v \in 1..NumSSA |-> 1])
  /\ map = ListMap
  /\ ann = InitAnn
  /\ joined = <<>>
  /\ nops = 0
  /\ last = [op |-> "create_coalesce_list", ret |-> 0]
  /\ pc = "list"
  /\ live = NULL_LIVE
  /\ stack = <<>>
  /\ cur = NO_PARTITION
  /\ cl = create_coalesce_list(ListMap)
  /\ hist = NULL_HIST
  /\ tp = NULL_TPA
  /\ cg = conflict_graph_new
  /\ co = NULL_LOCALS

\* gcc_assert disabled: the expression is not looked at.
gcc_assert_disabled(e) == TRUE

\* gcc_assert (e): the call goes on when E holds and is fatal otherwise.
gcc_assert(e) == e

AddCoalesce(p1, p2, value) ==
  /\ pc = "list"
  /\ nops < MaxAdds
  /\ IF gcc_assert(cl.add_mode)
     THEN /\ cl' = add_coalesce(cl, p1, p2, value)
          /\ hist' = [hist EXCEPT !.added =
                        [e \in DOMAIN @ \cup {{p1, p2}} |->
                           IF e = {p1, p2}
                           THEN (IF e \in DOMAIN @ THEN @[e] ELSE 0) + value
                           ELSE @[e]]]
          /\ pc' = pc
          /\ last' = [op |-> "add_coalesce", ret |-> 0,
                      larger_first |-> (p1 > p2)]
     ELSE /\ pc' = "abort"
          /\ last' = [op |-> "add_coalesce", ret |-> 0]
          /\ UNCHANGED <<cl, hist>>
  /\ nops' = nops + 1
  /\ UNCHANGED <<prog, map, ann, joined, liveVars, coVars>>

SortCoalesceList ==
  /\ pc \in {"list", "sort_coalesce_list"}
  /\ num_var_partitions(map) > 0
  /\ IF gcc_assert(cl.add_mode)
     THEN /\ \E sorted \in sorted_chains(flatten_chains(cl.list, <<>>, 0)) :
               cl' = sort_coalesce_list(cl, sorted)
          /\ pc' = IF pc = "list" THEN "list" ELSE "coalesce_list"
     ELSE /\ pc' = "abort"
          /\ UNCHANGED cl
  /\ last' = [op |-> "sort_coalesce_list", ret |-> 0]
  /\ UNCHANGED <<prog, mapVars, liveVars, hist, coVars>>

PopBestCoalesce ==
  /\ pc = "list"
  /\ Len(hist.popped) <= MaxAdds
  /\ IF gcc_assert(~ cl.add_mode)
     THEN /\ cl' = pop_best_coalesce(cl).cl
          /\ last' = [op |-> "pop_best_coalesce",
                      ret |-> pop_best_coalesce(cl).ret,
                      p1 |-> pop_best_coalesce(cl).p1,
                      p2 |-> pop_best_coalesce(cl).p2]
          /\ hist' = [hist EXCEPT
                        !.popped = Append(@, pop_best_coalesce(cl).ret)]
          /\ pc' = pc
     ELSE /\ pc' = "abort"
          /\ last' = [op |-> "pop_best_coalesce", ret |-> NO_BEST_COALESCE,
                      p1 |-> NO_PARTITION, p2 |-> NO_PARTITION]
          /\ UNCHANGED <<cl, hist>>
  /\ UNCHANGED <<prog, mapVars, liveVars, coVars>>

NextCL ==
  \/ \E p1, p2 \in 0..(ListPartitions - 1) : \E value \in ListValues :
       AddCoalesce(p1, p2, value)
  \/ SortCoalesceList
  \/ PopBestCoalesce

SpecCL == InitCL /\ [][NextCL]_vars

(***************************************************************************)
(* Properties of the coalesce list (SpecCL).                               *)
(***************************************************************************)
\* The distinct unordered pairs handed to add_coalesce so far.
AddedPairs == { e \in DOMAIN hist.added : Cardinality(e) = 2 }

\* C6: after add_coalesce calls and sort_coalesce_list, the successive
\* pop_best_coalesce calls return the pairs in non-increasing cost order,
\* one pop per distinct pair added, and NO_BEST_COALESCE from then on.
C6_PopNonIncreasing ==
  ~ cl.add_mode =>
    /\ \A i, j \in DOMAIN hist.popped :
         (i < j /\ hist.popped[j] # NO_BEST_COALESCE)
           => hist.popped[i] >= hist.popped[j]
    /\ \A i \in DOMAIN hist.popped :
         hist.popped[i] = NO_BEST_COALESCE <=> i > Cardinality(AddedPairs)

\* Three pairs came out in strictly decreasing cost order from chains that
\* held them in another order, and the next pop returned NO_BEST_COALESCE.
C6_Witness ==
  /\ ~ cl.add_mode
  /\ Cardinality(AddedPairs) > 2
  /\ Len(hist.popped) = Cardinality(AddedPairs) + 1
  /\ hist.popped[1] > hist.popped[2]
  /\ hist.popped[2] > hist.popped[3]
  /\ last.op = "pop_best_coalesce"
  /\ last.ret = NO_BEST_COALESCE

\* The number of places of the sequence Q that hold the node N.
CountIn(q, n) == Cardinality({ k \in DOMAIN q : q[k] = n })

\* The number of times the node N is held by the chains list[x], x from X
\* on.
RECURSIVE CountInChains(_, _, _)
CountInChains(list, n, x) ==
  IF x \notin DOMAIN list THEN 0
  ELSE CountIn(list[x], n) + CountInChains(list, n, x + 1)

\* The nodes held by any chain of the list C.
ChainNodes(c) == UNION { Range(c.list[x]) : x \in DOMAIN c.list }

\* The costs the pops have returned so far, NO_BEST_COALESCE left out.
PoppedCosts ==
  SelectSeq(hist.popped, LAMBDA r : r # NO_BEST_COALESCE)

\* C33: sort_coalesce_list neither loses nor duplicates a node: after the
\* sort list[0] holds every node the chains held in add mode as many times
\* as they held it, and every other chain is empty; each later
\* pop_best_coalesce returns the three fields of the first node of list[0]
\* and takes off that node alone, and returns NO_BEST_COALESCE exactly when
\* list[0] is empty; so the pops up to NO_BEST_COALESCE return the nodes
\* held before the sort, each once, and their costs are the costs added
\* for the distinct pairs.
C33_SortKeepsNodes ==
  /\ [][(cl.add_mode /\ ~ cl'.add_mode) =>
          /\ \A n \in ChainNodes(cl) \cup ChainNodes(cl') :
               CountIn(cl'.list[0], n) = CountInChains(cl.list, n, 0)
          /\ \A x \in DOMAIN cl'.list : (x # 0) => (cl'.list[x] = <<>>)
          /\ Len(cl'.list[0]) = Cardinality(AddedPairs)]_<<pc, cl, hist>>
  /\ [][((~ cl.add_mode) /\ Len(hist'.popped) > Len(hist.popped)) =>
          IF cl.list[0] = <<>>
          THEN /\ last'.ret = NO_BEST_COALESCE
               /\ cl' = cl
          ELSE /\ last'.ret = cl.list[0][1].cost
               /\ last'.ret # NO_BEST_COALESCE
               /\ last'.p1 = cl.list[0][1].first_partition
               /\ last'.p2 = cl.list[0][1].second_partition
               /\ cl'.list[0] = Tail(cl.list[0])
               /\ \A x \in DOMAIN cl'.list : (x # 0) => (cl'.list[x] = <<>>)
       ]_<<pc, cl, hist>>
  /\ []((~ cl.add_mode) =>
          /\ Len(PoppedCosts) + Len(cl.list[0]) = Cardinality(AddedPairs)
          /\ \A v \in { hist.added[e] : e \in AddedPairs } :
               CountIn(PoppedCosts, v)
                 + Cardinality({ k \in DOMAIN cl.list[0] :
                                   cl.list[0][k].cost = v })
                 = Cardinality({ e \in AddedPairs : hist.added[e] = v }))

\* Three nodes from two chains, two of them of equal cost, were sorted and
\* all popped, and the next pop returned NO_BEST_COALESCE.
C33_Witness ==
  /\ ~ cl.add_mode
  /\ Cardinality(AddedPairs) = 3
  /\ Cardinality({ CHOOSE p \in e : \A q \in e : p <= q : e \in AddedPairs }) = 2
  /\ Cardinality({ hist.added[e] : e \in AddedPairs }) = 2
  /\ Len(PoppedCosts) = 3
  /\ cl.list[0] = <<>>
  /\ last.op = "pop_best_coalesce"
  /\ last.ret = NO_BEST_COALESCE

\* The nodes of the list that hold the unordered pair E.
NodesOf(e) ==
  { <<x, k>> \in (DOMAIN cl.list) \X (1..MaxAdds) :
      /\ k \in DOMAIN cl.list[x]
      /\ {cl.list[x][k].first_partition, cl.list[x][k].second_partition} = e }

\* C12: in add mode, whatever add_coalesce calls were made: every pair added
\* with distinct partitions has exactly one node and no other pair has one;
\* the node is in the chain of its smaller partition with first < second;
\* each chain is strictly ascending by second partition; the cost is the sum
\* of the values added for the pair in either order; and a call with
\* p1 = p2 leaves the list as it was.
C12_PairNodes ==
  /\ [](cl.add_mode =>
         /\ \A e \in AddedPairs :
              /\ Cardinality(NodesOf(e)) = 1
              /\ \A n \in NodesOf(e) :
                   /\ n[1] = CHOOSE p \in e : \A q \in e : p <= q
                   /\ cl.list[n[1]][n[2]].cost = hist.added[e]
         /\ \A x \in DOMAIN cl.list : \A k \in DOMAIN cl.list[x] :
              /\ cl.list[x][k].first_partition = x
              /\ x < cl.list[x][k].second_partition
              /\ {x, cl.list[x][k].second_partition} \in AddedPairs
              /\ (k > 1) => (cl.list[x][k - 1].second_partition
                               < cl.list[x][k].second_partition))
  /\ [][\A p \in 0..(ListPartitions - 1) : \A value \in ListValues :
          (cl.add_mode /\ AddCoalesce(p, p, value)) => (cl' = cl)]_vars

\* The last call named the larger partition first; the chain of partition 0
\* holds two nodes, one of them added to more than once; and a call with
\* equal partitions has been made.
C12_Witness ==
  /\ cl.add_mode
  /\ last.op = "add_coalesce"
  /\ last.larger_first
  /\ \E k \in DOMAIN cl.list[0] : cl.list[0][k].cost >= 3
  /\ Len(cl.list[0]) = 2
  /\ \E e \in DOMAIN hist.added : Cardinality(e) = 1

\* C11: the list starts in add mode; once sort_coalesce_list has put it in
\* sorted mode it stays there; add_coalesce and sort_coalesce_list called
\* in sorted mode, and pop_best_coalesce called in add mode, are fatal and
\* leave the list as it was; and nothing runs after a fatal assertion.
C11_OneWayModes ==
  /\ cl.add_mode
  /\ [][/\ (~ cl.add_mode) => (~ cl'.add_mode)
        /\ (cl.add_mode /\ ~ cl'.add_mode) => (last'.op = "sort_coalesce_list")
        /\ ((~ cl.add_mode) /\ last'.op \in {"add_coalesce", "sort_coalesce_list"})
             => (pc' = "abort" /\ cl' = cl)
        /\ (cl.add_mode /\ last'.op = "pop_best_coalesce")
             => (pc' = "abort" /\ cl' = cl)
        /\ (pc = "abort") => (pc' = "abort" /\ cl' = cl)]_vars

\* add_coalesce has been called on a sorted list that still holds pairs,
\* and the call was fatal.
C11_Witness ==
  /\ pc = "abort"
  /\ last.op = "add_coalesce"
  /\ ~ cl.add_mode
  /\ Len(cl.list[0]) >= 2
  /\ Len(hist.popped) >= 1

(***************************************************************************)
(* The procedures the out-of-SSA pipeline is run on.                       *)
(***************************************************************************)
ConstArg(src) == [def |-> [code |-> "INTEGER_CST", id |-> 0], src |-> src]

\* Declaration tables: every version of one variable, or versions of two
\* ignored temporaries of the same type.
PipelineTables == { [v \in 1..5 |-> 1], [v \in 1..5 |-> 1 + 2 * (v % 2)] }

Procedure(tab, n, preds, phis, stmts) ==
  [num_ssa_names |-> n,
   ssa_name_var |-> [v \in 1..n |-> tab[v]],
   nblocks |-> Len(preds),
   preds |-> [b \in 0..(Len(preds) - 1) |-> preds[b + 1]],
   phis |-> [b \in 0..(Len(preds) - 1) |-> phis[b + 1]],
   stmts |-> [b \in 0..(Len(preds) - 1) |-> stmts[b + 1]]]

\* a_1 = 5; b_2 = a_1; c_3 = b_2; use (c_3).
CopyChain(tab) ==
  Procedure(tab, 3, << <<ENTRY_BLOCK>> >>, << <<>> >>,
            << <<ConstStmt(1), CopyStmt(2, 1), CopyStmt(3, 2),
                 UseStmt(<<3>>)>> >>)

\* a_1 = 5; b_2 = a_1; use (a_1, b_2): the source of the copy stays live.
CopyThenUse(tab) ==
  Procedure(tab, 2, << <<ENTRY_BLOCK>> >>, << <<>> >>,
            << <<ConstStmt(1), CopyStmt(2, 1), UseStmt(<<1, 2>>)>> >>)

DiamondPreds == << <<ENTRY_BLOCK>>, <<0>>, <<0>>, <<1, 2>> >>
LoopPreds == << <<ENTRY_BLOCK>>, <<0, 2>>, <<1>>, <<1>> >>

\* if (..) x_1 = 1; else x_2 = 2;  x_3 = PHI <x_1, x_2>; use (x_3).
Diamond(tab) ==
  Procedure(tab, 3, DiamondPreds,
            << <<>>, <<>>, <<>>, <<Phi(3, <<PhiArg(1, 1), PhiArg(2, 2)>>)>> >>,
            << <<UseStmt(<<>>)>>, <<ConstStmt(1)>>, <<ConstStmt(2)>>,
               <<UseStmt(<<3>>)>> >>)

\* The same with a constant PHI argument, x_2 = PHI <7, x_1>; version 3 is
\* not referenced.
DiamondConst(tab) ==
  Procedure(tab, 3, DiamondPreds,
            << <<>>, <<>>, <<>>, <<Phi(2, <<ConstArg(1), PhiArg(1, 2)>>)>> >>,
            << <<UseStmt(<<>>)>>, <<UseStmt(<<>>)>>, <<ConstStmt(1)>>,
               <<UseStmt(<<2>>)>> >>)

\* i_1 = 0; loop: i_2 = PHI <i_1, i_3>; i_3 = i_2 + 1; exit: use (i_2).
Loop(tab) ==
  Procedure(tab, 3, LoopPreds,
            << <<>>, <<Phi(2, <<PhiArg(1, 0), PhiArg(3, 2)>>)>>, <<>>, <<>> >>,
            << <<ConstStmt(1)>>, <<UseStmt(<<>>)>>, <<DefStmt(3, <<2>>)>>,
               <<UseStmt(<<2>>)>> >>)

\* The loop whose body uses the old value after the increment.
LoopOldValue(tab) ==
  Procedure(tab, 3, LoopPreds,
            << <<>>, <<Phi(2, <<PhiArg(1, 0), PhiArg(3, 2)>>)>>, <<>>, <<>> >>,
            << <<ConstStmt(1)>>, <<UseStmt(<<>>)>>,
               <<DefStmt(3, <<2>>), UseStmt(<<2>>)>>, <<UseStmt(<<3>>)>> >>)

\* The loop whose body uses i_2 after the increment, i_3 being used by the
\* PHI alone: i_1 = 0; loop: i_2 = PHI <i_1, i_3>; i_3 = i_2 + 1; use (i_2);
\* exit: use (i_2).
LoopBodyUse(tab) ==
  Procedure(tab, 3, LoopPreds,
            << <<>>, <<Phi(2, <<PhiArg(1, 0), PhiArg(3, 2)>>)>>, <<>>, <<>> >>,
            << <<ConstStmt(1)>>, <<UseStmt(<<>>)>>,
               <<DefStmt(3, <<2>>), UseStmt(<<2>>)>>, <<UseStmt(<<2>>)>> >>)

\* A loop header a_3 = PHI <a_1, a_2>; b_5 = PHI <b_4, a_3> whose a_3
\* argument arrives on the back edge from block 2.
CrossPhi(tab) ==
  Procedure(tab, 5, LoopPreds,
            << <<>>,
               <<Phi(3, <<PhiArg(1, 0), PhiArg(2, 2)>>),
                 Phi(5, <<PhiArg(4, 0), PhiArg(3, 2)>>)>>,
               <<>>, <<>> >>,
            << <<ConstStmt(1), ConstStmt(4)>>, <<UseStmt(<<>>)>>,
               <<ConstStmt(2)>>, <<UseStmt(<<5>>)>> >>)

\* y_1 is live across a join whose PHI result r_4 is never used.
UnusedPhi(tab) ==
  Procedure(tab, 4, DiamondPreds,
            << <<>>, <<>>, <<>>, <<Phi(4, <<PhiArg(2, 1), PhiArg(3, 2)>>)>> >>,
            << <<ConstStmt(1)>>, <<ConstStmt(2)>>, <<ConstStmt(3)>>,
               <<UseStmt(<<1>>)>> >>)

\* a_1 = 5; a_2 = a_1; b_3 = a_1; use (b_3): one value copied to a version
\* of its own declaration and to a version of another declaration.
CopyFanOut ==
  Procedure(<<1, 1, 3>>, 3, << <<ENTRY_BLOCK>> >>, << <<>> >>,
            << <<ConstStmt(1), CopyStmt(2, 1), CopyStmt(3, 1),
                 UseStmt(<<3>>)>> >>)

\* a_1 = 5; b_2 = a_1; c_3 = 7; c_4 = c_3; use (b_2, c_4): a copy between
\* the only versions of two declarations and a copy between two versions of
\* a third.
CopyAcrossClasses ==
  Procedure(<<1, 3, 2, 2>>, 4, << <<ENTRY_BLOCK>> >>, << <<>> >>,
            << <<ConstStmt(1), CopyStmt(2, 1), ConstStmt(3), CopyStmt(4, 3),
                 UseStmt(<<2, 4>>)>> >>)

Scenarios ==
  UNION { { CopyChain(tab), CopyThenUse(tab), Diamond(tab), DiamondConst(tab),
            Loop(tab), LoopOldValue(tab), LoopBodyUse(tab), CrossPhi(tab),
            UnusedPhi(tab) }
          : tab \in PipelineTables }
  \cup {CopyFanOut, CopyAcrossClasses}

\* The ways version V can be defined from the versions before it: from a
\* constant, as a copy of one of them, or from an expression over them all.
LineDefs(v) ==
  {ConstStmt(v)} \cup { CopyStmt(v, w) : w \in 1..(v - 1) }
  \cup (IF v > 1 THEN {DefStmt(v, [k \in 1..(v - 1) |-> k])} ELSE {})

\* Straight-line code x_1 = ..; x_2 = ..; x_3 = ..; use (U), the use in the
\* same block or, with SPLIT, in a second block.
StraightLine(tab, d2, d3, U, split) ==
  IF split
  THEN Procedure(tab, 3, << <<ENTRY_BLOCK>>, <<0>> >>, << <<>>, <<>> >>,
                 << <<ConstStmt(1), d2, d3>>,
                    <<UseStmt(push_ascending(<<>>, U))>> >>)
  ELSE Procedure(tab, 3, << <<ENTRY_BLOCK>> >>, << <<>> >>,
                 << <<ConstStmt(1), d2, d3, UseStmt(push_ascending(<<>>, U))>> >>)

StraightLines ==
  { StraightLine(tab, d2, d3, U, split) :
      tab \in PipelineTables, d2 \in LineDefs(2), d3 \in LineDefs(3),
      U \in SUBSET (1..3), split \in BOOLEAN }

\* A family of PHI-free procedures over a chain of GenBlocks blocks with
\* any of four extra edges, and two variables x_1, y_2, each defined in one
\* block (or by default) and used in one block.
GenExtraEdges ==
  { <<GenBlocks - 1, 1>>, <<1, 1>>, <<0, GenBlocks - 1>>, <<GenBlocks - 1, 0>> }

GenPreds(E, b) ==
  push_ascending(<<IF b = 0 THEN ENTRY_BLOCK ELSE b - 1>>,
                 { e[1] : e \in { x \in E : x[2] = b } }
                 \ {IF b = 0 THEN ENTRY_BLOCK ELSE b - 1})

GenUses(b, ux, uy) ==
  IF ux = b /\ uy = b THEN <<UseStmt(<<1, 2>>)>>
  ELSE IF ux = b THEN <<UseStmt(<<1>>)>>
  ELSE IF uy = b THEN <<UseStmt(<<2>>)>>
  ELSE <<>>

GenDefs(b, dx, dy) ==
  (IF dx = b THEN <<ConstStmt(1)>> ELSE <<>>)
  \o (IF dy = b THEN <<ConstStmt(2)>> ELSE <<>>)

GenProgram(E, dx, ux, dy, uy, defs_first) ==
  [num_ssa_names |-> 2,
   ssa_name_var |-> [v \in 1..2 |-> 1],
   nblocks |-> GenBlocks,
   preds |-> [b \in 0..(GenBlocks - 1) |-> GenPreds(E, b)],
   phis |-> [b \in 0..(GenBlocks - 1) |-> <<>>],
   stmts |-> [b \in 0..(GenBlocks - 1) |->
                IF defs_first THEN GenDefs(b, dx, dy) \o GenUses(b, ux, uy)
                ELSE GenUses(b, ux, uy) \o GenDefs(b, dx, dy)]]

GenPrograms ==
  { GenProgram(E, dx, ux, dy, uy, df) :
      E \in SUBSET GenExtraEdges,
      dx \in {NULL_BLOCK} \cup (0..(GenBlocks - 1)), ux \in 0..(GenBlocks - 1),
      dy \in {NULL_BLOCK} \cup (0..(GenBlocks - 1)), uy \in 0..(GenBlocks - 1),
      df \in BOOLEAN }

(***************************************************************************)
(* Spec: the pipeline create_ssa_var_map, compact_var_map,                 *)
(* calculate_live_on_entry, calculate_live_on_exit.                        *)
(***************************************************************************)
\* How the map is prepared before the live ranges are computed.
MapModes == {"uncompacted", "normal", "no_single_defs", "united"}

PreparedMap(pg, mode) ==
  IF mode = "uncompacted"
  THEN [map |-> create_ssa_var_map(pg), ann |-> InitAnn]
  ELSE IF mode = "normal"
  THEN compact_var_map(create_ssa_var_map(pg), InitAnn, VARMAP_NORMAL)
  ELSE IF mode = "no_single_defs"
  THEN compact_var_map(create_ssa_var_map(pg), InitAnn, VARMAP_NO_SINGLE_DEFS)
  ELSE compact_var_map(
         var_union(create_ssa_var_map(pg), InitAnn,
                   SsaName(1), SsaName(2)).map,
         InitAnn, VARMAP_NORMAL)

Init ==
  /\ \E pg \in Scenarios \cup StraightLines \cup GenPrograms : \E mode \in MapModes :
       /\ prog = pg
       /\ map = PreparedMap(pg, mode).map
       /\ ann = PreparedMap(pg, mode).ann
       /\ joined = [x \in 0..pg.num_ssa_names |->
                      IF mode = "united" /\ x = 2 THEN 1 ELSE x]
  /\ nops = 0
  /\ last = [op |-> "init", ret |-> 0]
  /\ pc = "calculate_live_on_entry"
  /\ live = NULL_LIVE
  /\ stack = <<>>
  /\ cur = NO_PARTITION
  /\ cl = NULL_LIST
  /\ hist = NULL_HIST
  /\ tp = NULL_TPA
  /\ cg = conflict_graph_new
  /\ co = NULL_LOCALS

\* Lines 554-628: the block scan of calculate_live_on_entry.
CalculateLiveOnEntryScan ==
  /\ pc = "calculate_live_on_entry"
  /\ live' = live_initial_scan(prog, map, ann)
  /\ pc' = "live_worklist"
  /\ last' = [op |-> "scan", ret |-> 0]
  /\ UNCHANGED <<prog, mapVars, stack, cur, listVars, coVars>>

\* Lines 631-634 and 489-499: live_worklist is entered for the next
\* partition I of live->global and pushes its live-on-entry blocks.
LiveWorklistEnter(i) ==
  /\ pc = "live_worklist"
  /\ stack = <<>>
  /\ i \in live.global
  /\ i > cur
  /\ \A j \in live.global : j > cur => i <= j
  /\ TREE_CODE(partition_to_var(map, i)) = "SSA_NAME"
  /\ cur' = i
  /\ stack' = push_ascending(<<>>, live.livein[i])
  /\ last' = [op |-> "live_worklist", ret |-> i]
  /\ UNCHANGED <<prog, mapVars, pc, live, listVars, coVars>>

\* Lines 501-518: one iteration of the while loop of live_worklist.
LiveWorklistPop ==
  /\ pc = "live_worklist"
  /\ stack # <<>>
  /\ live' = worklist_preds(live, SubSeq(stack, 1, Len(stack) - 1), cur,
                            worklist_def_bb(prog, map, cur),
                            prog.preds[stack[Len(stack)]], 1).live
  /\ stack' = worklist_preds(live, SubSeq(stack, 1, Len(stack) - 1), cur,
                             worklist_def_bb(prog, map, cur),
                             prog.preds[stack[Len(stack)]], 1).stack
  /\ last' = [op |-> "pop", ret |-> stack[Len(stack)]]
  /\ UNCHANGED <<prog, mapVars, pc, cur, listVars, coVars>>

\* Line 634: the loop over live->global is over.
CalculateLiveOnEntryReturn ==
  /\ pc = "live_worklist"
  /\ stack = <<>>
  /\ \A j \in live.global : j <= cur
  /\ pc' = "calculate_live_on_exit"
  /\ last' = [op |-> "calculate_live_on_entry", ret |-> 0]
  /\ UNCHANGED <<prog, mapVars, liveVars, listVars, coVars>>

\* Lines 728-771.
CalculateLiveOnExit ==
  /\ pc = "calculate_live_on_exit"
  /\ live' = calculate_live_on_exit(prog, map, ann, live)
  /\ pc' = "live_done"
  /\ last' = [op |-> "calculate_live_on_exit", ret |-> 0]
  /\ UNCHANGED <<prog, mapVars, stack, cur, listVars, coVars>>

\* The callers' steps between the live ranges and the conflict graph:
\* root_var_init, and create_coalesce_list when a list is wanted.
RootVarInit(with_list) ==
  /\ pc = "live_done"
  /\ root_var_init(map, ann).ok
  /\ tp' = root_var_init(map, ann).rv
  /\ ann' = root_var_init(map, ann).ann
  /\ cl' = IF with_list THEN create_coalesce_list(map) ELSE NULL_LIST
  /\ pc' = "build_tree_conflict_graph"
  /\ last' = [op |-> "root_var_init", ret |-> 0]
  /\ UNCHANGED <<prog, map, joined, nops, liveVars, hist, cg, co>>

\* type_var_init called between the live ranges and the conflict graph;
\* the coalescing that follows uses no coalesce list.
TypeVarInitLive ==
  /\ pc = "live_done"
  /\ type_var_init(map, ann).ok
  /\ tp' = type_var_init(map, ann).tv
  /\ cl' = NULL_LIST
  /\ pc' = "build_tree_conflict_graph"
  /\ last' = [op |-> "type_var_init", ret |-> 0]
  /\ UNCHANGED <<prog, mapVars, liveVars, hist, cg, co>>

\* The caller hides the classes of one partition with tpa_compact (lines
\* 845-908) before the conflict graph is built.
TpaCompactLive ==
  /\ pc = "build_tree_conflict_graph"
  /\ ~ tp.null
  /\ tp.uncompressed_num = -1
  /\ tp' = tpa_compact(tp).tpa
  /\ last' = [op |-> "tpa_compact", ret |-> tpa_compact(tp).ret]
  /\ UNCHANGED <<prog, mapVars, liveVars, listVars, pc, cg, co>>

\* Lines 1286-1441.
BuildTreeConflictGraph ==
  /\ pc = "build_tree_conflict_graph"
  /\ ~ tp.null
  /\ cg' = build_tree_conflict_graph(prog, map, ann, live, tp, cl).graph
  /\ cl' = build_tree_conflict_graph(prog, map, ann, live, tp, cl).cl
  /\ pc' = IF cl = NULL_LIST THEN "coalesce_trees" ELSE "sort_coalesce_list"
  /\ last' = [op |-> "build_tree_conflict_graph", ret |-> 0]
  /\ UNCHANGED <<prog, mapVars, liveVars, hist, tp, co>>

\* Lines 1461-1528: one iteration of the while loop over the coalesce list.
CoalesceListStep ==
  /\ pc = "coalesce_list"
  /\ pop_best_coalesce(cl).ret # NO_BEST_COALESCE
  /\ cl' = pop_best_coalesce(cl).cl
  /\ map' = list_pair(World(map, ann, tp, cg),
                      pop_best_coalesce(cl).p1, pop_best_coalesce(cl).p2).map
  /\ ann' = list_pair(World(map, ann, tp, cg),
                      pop_best_coalesce(cl).p1, pop_best_coalesce(cl).p2).ann
  /\ tp' = list_pair(World(map, ann, tp, cg),
                      pop_best_coalesce(cl).p1, pop_best_coalesce(cl).p2).tpa
  /\ cg' = list_pair(World(map, ann, tp, cg),
                        pop_best_coalesce(cl).p1,
                        pop_best_coalesce(cl).p2).graph
  /\ last' = [op |-> "coalesce",
              ret |-> list_pair(World(map, ann, tp, cg),
                                pop_best_coalesce(cl).p1,
                                pop_best_coalesce(cl).p2).result,
              p1 |-> pop_best_coalesce(cl).p1,
              p2 |-> pop_best_coalesce(cl).p2]
  /\ joined' = [x \in DOMAIN joined |->
                  CHOOSE y \in DOMAIN joined :
                    /\ partition_find(map'.var_partition, y)
                         = partition_find(map'.var_partition, x)
                    /\ \A z \in DOMAIN joined :
                         partition_find(map'.var_partition, z)
                           = partition_find(map'.var_partition, x) => y <= z]
  /\ UNCHANGED <<prog, nops, pc, liveVars, hist, co>>

\* Lines 1461 and 1530: the list is empty, coalesce_tpa_members returns.
CoalesceListReturn ==
  /\ pc = "coalesce_list"
  /\ pop_best_coalesce(cl).ret = NO_BEST_COALESCE
  /\ pc' = "coalesced"
  /\ last' = [op |-> "coalesce_tpa_members", ret |-> 0]
  /\ UNCHANGED <<prog, mapVars, liveVars, listVars, coVars>>

\* Lines 1533-1545: the for loop over the trees and the head of the while
\* loop; the first partition y of tree x is taken off its list.
CoalesceTreesOuter ==
  /\ pc = "coalesce_trees"
  /\ co.x < tpa_num_trees(tp)
  /\ IF tpa_first_partition(tp, co.x) = TPA_NONE
     THEN /\ co' = [co EXCEPT !.x = @ + 1]
          /\ UNCHANGED <<tp, pc>>
     ELSE /\ tp' = tpa_remove_partition(tp, co.x,
                                         tpa_first_partition(tp, co.x))
          /\ co' = [x |-> co.x,
                    y |-> tpa_first_partition(tp, co.x),
                    z |-> tpa_next_partition(tp,
                                             tpa_first_partition(tp, co.x)),
                    p1 |-> var_to_partition(map, ann,
                             partition_to_var(map,
                                              tpa_first_partition(tp, co.x))),
                    var |-> partition_to_var(map,
                                             tpa_first_partition(tp, co.x))]
          /\ pc' = "coalesce_inner"
  /\ last' = [op |-> "coalesce_trees", ret |-> "none"]
  /\ UNCHANGED <<prog, mapVars, liveVars, listVars, cg>>

\* Lines 1547-1606: one iteration of the for loop over z.
CoalesceTreesInner ==
  /\ pc = "coalesce_inner"
  /\ co.z # TPA_NONE
  /\ map' = trees_pair(World(map, ann, tp, cg), co).map
  /\ ann' = trees_pair(World(map, ann, tp, cg), co).ann
  /\ tp' = trees_pair(World(map, ann, tp, cg), co).tpa
  /\ cg' = trees_pair(World(map, ann, tp, cg), co).graph
  /\ co' = [co EXCEPT
              !.p1 = trees_pair(World(map, ann, tp, cg), co).p1,
              !.var = IF trees_pair(World(map, ann, tp, cg), co).result
                         = "success"
                      THEN partition_to_var(map',
                             trees_pair(World(map, ann, tp, cg), co).p1)
                      ELSE @,
              !.z = tpa_next_partition(tp', co.z)]
  /\ last' = [op |-> "coalesce",
              ret |-> trees_pair(World(map, ann, tp, cg), co).result,
              p1 |-> co.y, p2 |-> co.z]
  /\ joined' = [x \in DOMAIN joined |->
                  CHOOSE y \in DOMAIN joined :
                    /\ partition_find(map'.var_partition, y)
                         = partition_find(map'.var_partition, x)
                    /\ \A z \in DOMAIN joined :
                         partition_find(map'.var_partition, z)
                           = partition_find(map'.var_partition, x) => y <= z]
  /\ UNCHANGED <<prog, nops, pc, liveVars, listVars>>

\* Line 1547: the for loop over z is over, back to the while loop.
CoalesceTreesInnerDone ==
  /\ pc = "coalesce_inner"
  /\ co.z = TPA_NONE
  /\ pc' = "coalesce_trees"
  /\ last' = [op |-> "coalesce_trees", ret |-> "none"]
  /\ UNCHANGED <<prog, mapVars, liveVars, listVars, coVars>>

\* Line 1533: every tree has been emptied, coalesce_tpa_members returns.
CoalesceTreesReturn ==
  /\ pc = "coalesce_trees"
  /\ co.x >= tpa_num_trees(tp)
  /\ pc' = "coalesced"
  /\ last' = [op |-> "coalesce_tpa_members", ret |-> 0]
  /\ UNCHANGED <<prog, mapVars, liveVars, listVars, coVars>>

Next ==
  \/ CalculateLiveOnEntryScan
  \/ \E i \in 0..(num_var_partitions(map) - 1) : LiveWorklistEnter(i)
  \/ LiveWorklistPop
  \/ CalculateLiveOnEntryReturn
  \/ CalculateLiveOnExit
  \/ \E with_list \in BOOLEAN : RootVarInit(with_list)
  \/ TypeVarInitLive
  \/ TpaCompactLive
  \/ BuildTreeConflictGraph
  \/ SortCoalesceList
  \/ CoalesceListStep
  \/ CoalesceListReturn
  \/ CoalesceTreesOuter
  \/ CoalesceTreesInner
  \/ CoalesceTreesInnerDone
  \/ CoalesceTreesReturn

Spec == Init /\ [][Next]_vars

\* The pipeline on the maps create_ssa_var_map and compact_var_map leave
\* when no var_union has been called before the live ranges are computed.
InitFresh == Init /\ \A x \in DOMAIN joined : joined[x] = x

SpecFresh == InitFresh /\ [][Next]_vars

(***************************************************************************)
(* Properties of the live range calculation (Spec).                        *)
(***************************************************************************)
AfterLiveOnEntry == pc \in {"calculate_live_on_exit", "live_done"}
Partitions == 0..(num_var_partitions(map) - 1)

\* C4: once calculate_live_on_entry has returned, for every partition p and
\* every block b in livein[p], each predecessor of b other than the entry
\* block either is the block defining p's representative SSA version or is
\* itself in livein[p].
C4_LiveinClosed ==
  AfterLiveOnEntry =>
    \A p \in Partitions : \A b \in live.livein[p] :
      \A k \in DOMAIN prog.preds[b] :
        prog.preds[b][k] # ENTRY_BLOCK =>
          \/ prog.preds[b][k] = def_bb(prog, partition_to_var(map, p).id)
          \/ prog.preds[b][k] \in live.livein[p]

\* The worklist has added a block two edges away from every block the scan
\* marked, and has stopped at the defining block of the partition.
C4_Witness ==
  /\ AfterLiveOnEntry
  /\ \E p \in Partitions : \E b \in live.livein[p] :
       /\ b \notin live_initial_scan(prog, map, ann).livein[p]
       /\ \A c \in Range(prog.preds[b]) :
            c \notin live_initial_scan(prog, map, ann).livein[p]
       /\ \E c \in live.livein[p] :
            /\ def_bb(prog, partition_to_var(map, p).id) \in Range(prog.preds[c])
            /\ def_bb(prog, partition_to_var(map, p).id) \notin live.livein[p]

\* The blocks B, versions a and edge sources SRC such that B holds
\* a = PHI <..> followed by another PHI with argument a on the edge from
\* SRC, SRC being neither B nor the entry block.
CrossPhiCases(pg) ==
  { c \in Blocks(pg) \X (1..pg.num_ssa_names) \X Blocks(pg) :
      /\ c[3] # c[1]
      /\ \E k1 \in DOMAIN pg.phis[c[1]] : \E k2 \in DOMAIN pg.phis[c[1]] :
           /\ k1 < k2
           /\ pg.phis[c[1]][k1].result = SsaName(c[2])
           /\ \E x \in Range(pg.phis[c[1]][k2].args) :
                x.def = SsaName(c[2]) /\ x.src = c[3] }

\* C8: after the block scan (and as long as the partitions are those the
\* live ranges were computed for), for a block holding a_3 = PHI <a_1, a_2>;
\* b_3 = PHI <b_1, a_3> whose a_3 argument arrives on an edge from another
\* block, a_3's partition is live on entry to that edge's source block; and
\* scanning the PHIs of such a block in a single pass, marking each result
\* defined at once, gives different live-on-entry sets.
C8_TwoPassPhi ==
  pc \in {"live_worklist", "calculate_live_on_exit", "live_done"} =>
    \A c \in CrossPhiCases(prog) :
      var_to_partition(map, ann, SsaName(c[2])) # NO_PARTITION =>
        /\ c[3] \in live.livein[var_to_partition(map, ann, SsaName(c[2]))]
        /\ scan_phis(prog, map, ann, new_tree_live_info(map), {},
                     prog.phis[c[1]], 1).livein
           # scan_phis_single_pass(prog, map, ann, new_tree_live_info(map), {},
                                   prog.phis[c[1]], 1).livein

C8_Witness ==
  /\ pc = "live_worklist"
  /\ last.op = "scan"
  /\ \E c \in CrossPhiCases(prog) :
       /\ var_to_partition(map, ann, SsaName(c[2])) # NO_PARTITION
       /\ c[3] \in live.livein[var_to_partition(map, ann, SsaName(c[2]))]
       /\ \A st \in Range(prog.stmts[c[3]]) : c[2] \notin Range(st.uses)

\* C10: calculate_live_on_exit leaves livein as it was, and afterwards a
\* partition p is in liveout[s] of a block s exactly when some successor of
\* s has p live on entry or when an SSA version of p is a PHI argument on
\* an edge leaving s.
PhiArgOnEdgeFrom(p, src) ==
  \E b \in Blocks(prog) : \E ph \in Range(prog.phis[b]) :
    \E x \in Range(ph.args) :
      /\ x.src = src
      /\ TREE_CODE(x.def) = "SSA_NAME"
      /\ var_to_partition(map, ann, x.def) = p

LiveoutExact ==
  \A src \in Blocks(prog) : \A p \in Partitions :
    p \in live.liveout[src]
      <=> \/ \E b \in succs(prog, src) : b \in live.livein[p]
          \/ PhiArgOnEdgeFrom(p, src)

C10_LiveOnExit ==
  [][last'.op = "calculate_live_on_exit" =>
       /\ live'.livein = live.livein
       /\ live'.global = live.global
       /\ LiveoutExact']_vars

\* One partition is live on exit only as a PHI argument, another only
\* because a successor has it live on entry.
C10_Witness ==
  /\ pc = "live_done"
  /\ \E src \in Blocks(prog) : \E p \in live.liveout[src] :
       /\ PhiArgOnEdgeFrom(p, src)
       /\ \A b \in succs(prog, src) : b \notin live.livein[p]
  /\ \E src \in Blocks(prog) : \E p \in live.liveout[src] :
       /\ ~ PhiArgOnEdgeFrom(p, src)
       /\ \E b \in succs(prog, src) : b \in live.livein[p]

\* The diamond if (..) x_1 = 1; else x_2 = 2;  x_3 = PHI <x_1, x_2> over a map
\* in which each of the three versions has a partition of its own, once
\* both live range calculations have run.
LiveOnExitBlocks(v) ==
  { b \in Blocks(prog) : PartitionOf(map, ann, v) \in live.liveout[b] }

DiamondLive ==
  /\ pc = "live_done"
  /\ prog \in { Diamond(tab) : tab \in PipelineTables }
  /\ \A v \in 1..3 : PartitionOf(map, ann, v) # NO_PARTITION
  /\ \A v \in 1..3 : joined[v] = v

\* C24 as stated: x_3 is live on entry to the join block 3, x_1 is live on
\* exit from the left arm only and x_2 from the right arm only.
C24_PhiResultLiveIntoJoin ==
  DiamondLive =>
    /\ 3 \in live.livein[PartitionOf(map, ann, 3)]
    /\ LiveOnExitBlocks(1) = {1}
    /\ LiveOnExitBlocks(2) = {2}

\* C24: in the diamond x_1 is live on exit from the left arm only and x_2
\* from the right arm only; x_3, the PHI result of the join block, is
\* defined at the top of that block and is live on entry to no block and on
\* exit from none, and neither x_1 nor x_2 is live on entry to any block.
C24_DiamondLiveness ==
  DiamondLive =>
    /\ LiveOnExitBlocks(1) = {1}
    /\ LiveOnExitBlocks(2) = {2}
    /\ LiveOnExitBlocks(3) = {}
    /\ \A v \in 1..3 : live.livein[PartitionOf(map, ann, v)] = {}
    /\ live.global \cap { PartitionOf(map, ann, v) : v \in 1..3 } = {}

\* The live ranges of the diamond have been computed on a compacted map:
\* x_1 is live on exit from the left arm.
C24_Witness ==
  /\ DiamondLive
  /\ Compacted(map)
  /\ PartitionOf(map, ann, 1) \in live.liveout[1]
  /\ PartitionOf(map, ann, 3) \notin live.liveout[3]

(***************************************************************************)
(* Properties of the conflict graph and the coalescer (Spec).              *)
(*                                                                         *)
(* Liveness of an SSA version at a program point is defined here from the  *)
(* procedure alone.  Point (b, k) lies after the PHIs and the first k      *)
(* statements of block b; point (b, Len(stmts[b])) is the end of b, where  *)
(* the PHI arguments on its outgoing edges are still to be read.           *)
(***************************************************************************)
Versions == 1..prog.num_ssa_names

UsedAfter(v, b, k) ==
  \E j \in DOMAIN prog.stmts[b] :
    /\ j > k
    /\ v \in Range(prog.stmts[b][j].uses)
    /\ \A i \in DOMAIN prog.stmts[b] :
         (k < i /\ i < j) => v \notin Range(prog.stmts[b][i].defs)

DefinedAfter(v, b, k) ==
  \E j \in DOMAIN prog.stmts[b] : j > k /\ v \in Range(prog.stmts[b][j].defs)

PhiResultIn(v, b) ==
  \E ph \in Range(prog.phis[b]) : ph.result = SsaName(v)

PhiArgFrom(v, b, src) ==
  \E ph \in Range(prog.phis[b]) : \E x \in Range(ph.args) :
    x.def = SsaName(v) /\ x.src = src

\* One round of the backward data-flow equations from the set S of blocks
\* V is known to be live on entry to.
LiveInRound(v, S) ==
  S \cup { b \in Blocks(prog) :
             /\ ~ PhiResultIn(v, b)
             /\ \/ UsedAfter(v, b, 0)
                \/ /\ ~ DefinedAfter(v, b, 0)
                   /\ \E c \in succs(prog, b) : c \in S \/ PhiArgFrom(v, c, b) }

RECURSIVE LiveInFrom(_, _)
LiveInFrom(v, S) ==
  IF LiveInRound(v, S) = S THEN S ELSE LiveInFrom(v, LiveInRound(v, S))

VersionLiveOut(v, b) ==
  \E c \in succs(prog, b) : c \in LiveInFrom(v, {}) \/ PhiArgFrom(v, c, b)

LiveAt(v, b, k) ==
  UsedAfter(v, b, k) \/ (~ DefinedAfter(v, b, k) /\ VersionLiveOut(v, b))

\* The program points (b, k) of the procedure.
Points ==
  UNION { { <<b, k>> : k \in 0..Len(prog.stmts[b]) } : b \in Blocks(prog) }

SimultaneouslyLive(u, v) ==
  \E q \in Points : LiveAt(u, q[1], q[2]) /\ LiveAt(v, q[1], q[2])

SamePartition(u, v) ==
  /\ var_to_partition(map, ann, SsaName(u)) # NO_PARTITION
  /\ var_to_partition(map, ann, SsaName(u))
       = var_to_partition(map, ann, SsaName(v))

\* The procedure has a copy statement between two SSA names.
HasCopy ==
  \E b \in Blocks(prog) : \E j \in DOMAIN prog.stmts[b] :
    /\ prog.stmts[b][j].code = "MODIFY_EXPR"
    /\ TREE_CODE(prog.stmts[b][j].rhs) = "SSA_NAME"

\* No two SSA versions of one partition are live at the same program point.
LiveRangesApart ==
  \A u \in Versions : \A v \in Versions :
    (u # v /\ SamePartition(u, v)) => ~ SimultaneouslyLive(u, v)

\* The statement of C2 with the copy case included, as the specification
\* words it: when coalesce_tpa_members has returned, no two SSA versions of
\* one partition are live at the same program point.
C2_NeverLiveTogether == (pc = "coalesced") => LiveRangesApart

\* C2, for the procedures that have no copy statement: after
\* build_tree_conflict_graph and coalesce_tpa_members, in either mode, no
\* two SSA versions that end up in one partition are live at the same
\* program point.  The statement of the specification implies this one.
C2_NeverLiveTogetherWithoutCopies ==
  (pc = "coalesced" /\ ~ HasCopy) => LiveRangesApart

\* The versions united in the map before the pipeline starts are not live
\* together: up to the first step of coalesce_tpa_members no two versions
\* of one partition are live at the same program point.
UnitedBeforehandApart ==
  (pc \notin {"coalesce_list", "coalesce_trees", "coalesce_inner",
              "coalesced"}) => LiveRangesApart

\* With a coalesce list, on maps whose earlier unions join no two versions
\* that are live together and on procedures whose copied versions are not
\* used after the copy, the coalescer keeps live versions apart.
ApartWithList == (pc = "coalesced" /\ cl # NULL_LIST) => LiveRangesApart

\* The coalescer has joined the two sides of a copy whose source is used
\* after the copy, and has kept apart two versions that are live together.
CopySidesJoined ==
  /\ pc = "coalesced"
  /\ \E u \in Versions : \E v \in Versions :
       /\ u # v
       /\ SamePartition(u, v)
       /\ SimultaneouslyLive(u, v)
  /\ \E u \in Versions : \E v \in Versions :
       /\ SimultaneouslyLive(u, v)
       /\ var_to_partition(map, ann, SsaName(u)) # NO_PARTITION
       /\ var_to_partition(map, ann, SsaName(v)) # NO_PARTITION
       /\ tpa_find_tree(tp, var_to_partition(map, ann, SsaName(u)))
            = tpa_find_tree(tp, var_to_partition(map, ann, SsaName(v)))
       /\ ~ SamePartition(u, v)

\* The scan state build_tree_conflict_graph holds when its backward walk of
\* block B is about to reach statement K: the graph of the blocks before B,
\* and the statements after K walked from the live-on-exit set of B.
StateBeforeStmt(b, k) ==
  scan_conflict_stmts(tp, map, ann,
    [build_tree_conflict_graph([prog EXCEPT !.nblocks = b], map, ann, live,
                               tp, cl)
       EXCEPT !.live = live.liveout[b]],
    SubSeq(prog.stmts[b], k + 1, Len(prog.stmts[b])),
    Len(prog.stmts[b]) - k)

\* The statements of the procedure that are copies between two partitions.
CopyPoints ==
  { q \in Blocks(prog) \X (1..MaxStmts) :
      /\ q[2] <= Len(prog.stmts[q[1]])
      /\ is_a_copy(map, ann, prog.stmts[q[1]][q[2]]) }

\* The cost the coalesce list C records for the pair LO < HI, 0 if none.
PairCost(c, lo, hi) ==
  IF \E k \in DOMAIN c.list[lo] : c.list[lo][k].second_partition = hi
  THEN c.list[lo][CHOOSE k \in DOMAIN c.list[lo] :
                    c.list[lo][k].second_partition = hi].cost
  ELSE 0

\* The other pairs of C with their costs.
OtherPairs(c, lo, hi) ==
  { n \in UNION { Range(c.list[x]) : x \in DOMAIN c.list } :
      ~ (n.first_partition = lo /\ n.second_partition = hi) }

\* What the copy p1 = p2 did to the scan state S, giving R.
CopyEffect(s, r, p1, p2) ==
  /\ r.graph =
       s.graph \cup
         { {p1, y} : y \in { z \in s.live \ {p1, p2} :
                               /\ tpa_find_tree(tp, p1) # TPA_NONE
                               /\ z \in tpa_list(tp, tpa_first_partition(tp,
                                          tpa_find_tree(tp, p1))) } }
  /\ (p1 # p2) => ({p1, p2} \in r.graph <=> {p1, p2} \in s.graph)
  /\ {p1} \notin r.graph
  /\ r.live = (s.live \ {p1}) \cup {p2}
  /\ (cl = NULL_LIST) => (r.cl = NULL_LIST)
  /\ (cl # NULL_LIST /\ p1 # p2) =>
       /\ PairCost(r.cl, IF p1 < p2 THEN p1 ELSE p2, IF p1 < p2 THEN p2 ELSE p1)
            = PairCost(s.cl, IF p1 < p2 THEN p1 ELSE p2,
                       IF p1 < p2 THEN p2 ELSE p1) + 1
       /\ OtherPairs(r.cl, IF p1 < p2 THEN p1 ELSE p2,
                     IF p1 < p2 THEN p2 ELSE p1)
            = OtherPairs(s.cl, IF p1 < p2 THEN p1 ELSE p2,
                         IF p1 < p2 THEN p2 ELSE p1)
  /\ (cl # NULL_LIST /\ p1 = p2) => (r.cl = s.cl)

CopyChains == { CopyChain(tab) : tab \in PipelineTables }

\* C27: when build_tree_conflict_graph reaches a copy p1 = p2 between two
\* partitions, the copy adds the arcs between p1 and the other live
\* partitions of p1's class and no other arc, so never the arc (p1, p2)
\* itself, whether or not p2 is live after the copy; it leaves p2 live
\* and p1 dead before the statement; and with a coalesce list it raises
\* the cost of the pair (p1, p2) by one and changes nothing else of the
\* list.  The graph built for a_1 = 5; b_2 = a_1; c_3 = b_2 has no arc.
C27_CopyAddsNoConflict ==
  /\ (pc = "build_tree_conflict_graph") =>
       \A q \in CopyPoints :
         CopyEffect(StateBeforeStmt(q[1], q[2]),
                    scan_copy(tp, map, ann, StateBeforeStmt(q[1], q[2]),
                              prog.stmts[q[1]][q[2]]),
                    operand_partition(map, ann, prog.stmts[q[1]][q[2]].lhs),
                    operand_partition(map, ann, prog.stmts[q[1]][q[2]].rhs))
  /\ (last.op = "build_tree_conflict_graph" /\ prog \in CopyChains)
       => (cg = {})

\* build_tree_conflict_graph is about to run with a coalesce list on a
\* procedure with a copy whose source is live after the copy, the two
\* sides being different partitions of one class.
C27_Witness ==
  /\ pc = "build_tree_conflict_graph"
  /\ cl # NULL_LIST
  /\ \E q \in CopyPoints :
       /\ operand_partition(map, ann, prog.stmts[q[1]][q[2]].rhs)
            \in StateBeforeStmt(q[1], q[2]).live
       /\ operand_partition(map, ann, prog.stmts[q[1]][q[2]].lhs)
            # operand_partition(map, ann, prog.stmts[q[1]][q[2]].rhs)
       /\ tpa_find_tree(tp, operand_partition(map, ann,
                                              prog.stmts[q[1]][q[2]].lhs))
            = tpa_find_tree(tp, operand_partition(map, ann,
                                                  prog.stmts[q[1]][q[2]].rhs))
       /\ tpa_find_tree(tp, operand_partition(map, ann,
                                              prog.stmts[q[1]][q[2]].lhs))
            # TPA_NONE

\* The blocks reachable from the entry of the procedure along paths that
\* avoid block D, grown from the set S.
RECURSIVE ReachAvoiding(_, _)
ReachAvoiding(S, d) ==
  IF { b \in Blocks(prog) \ ({d} \cup S) :
         \E c \in S : c \in Range(prog.preds[b]) } = {}
  THEN S
  ELSE ReachAvoiding(S \cup { b \in Blocks(prog) \ {d} :
                                \E c \in S : c \in Range(prog.preds[b]) }, d)

\* Block D dominates block B: every path from the entry to B passes D.
Dominates(d, b) ==
  \/ b = d
  \/ b \notin ReachAvoiding({ c \in Blocks(prog) \ {d} :
                               ENTRY_BLOCK \in Range(prog.preds[c]) }, d)

\* The definition of version V, if it has one, dominates every use of V: a
\* use in a statement of the defining block follows the definition, a use
\* in another block is in a block the defining block dominates, and a PHI
\* argument arrives on an edge whose source the defining block dominates.
DefDominatesUses(v) ==
  def_bb(prog, v) # NULL_BLOCK =>
    /\ \A b \in Blocks(prog) : \A k \in DOMAIN prog.stmts[b] :
         v \in Range(prog.stmts[b][k].uses) =>
           IF b = def_bb(prog, v)
           THEN \/ PhiResultIn(v, b)
                \/ \E j \in DOMAIN prog.stmts[b] :
                     j < k /\ v \in Range(prog.stmts[b][j].defs)
           ELSE Dominates(def_bb(prog, v), b)
    /\ \A b \in Blocks(prog) : \A src \in Blocks(prog) :
         PhiArgFrom(v, b, src) => Dominates(def_bb(prog, v), src)

\* The input is in SSA form with every definition dominating its uses, and
\* every version that has a partition has one of its own.
StrictSSA ==
  /\ \A v \in Versions : DefDominatesUses(v)
  /\ \A v \in Versions : \A w \in Versions :
       (v # w /\ PartitionOf(map, ann, v) # NO_PARTITION)
         => PartitionOf(map, ann, v) # PartitionOf(map, ann, w)

\* C30: on such input, once calculate_live_on_entry has returned, no
\* partition is live on entry to the entry block or to the block that
\* defines its representative, by a statement or by a PHI, and global holds
\* exactly the partitions live on entry to some block.
C30_NotLiveIntoDefBlock ==
  (AfterLiveOnEntry /\ StrictSSA) =>
    /\ \A p \in Partitions :
         /\ ENTRY_BLOCK \notin live.livein[p]
         /\ def_bb(prog, partition_to_var(map, p).id) \notin live.livein[p]
    /\ live.global = { p \in Partitions : live.livein[p] # {} }

\* The live ranges have been computed for a procedure in strict SSA form
\* with a loop: the result of the PHI of the loop header is live on entry to
\* two blocks, one of them a successor of the header, and not to the header.
C30_Witness ==
  /\ AfterLiveOnEntry
  /\ StrictSSA
  /\ \E p \in Partitions :
       /\ Cardinality(live.livein[p]) >= 2
       /\ def_bb(prog, partition_to_var(map, p).id) # NULL_BLOCK
       /\ PhiResultIn(partition_to_var(map, p).id,
                      def_bb(prog, partition_to_var(map, p).id))
       /\ \E b \in live.livein[p] :
            /\ def_bb(prog, partition_to_var(map, p).id)
                 \in Range(prog.preds[b])
            /\ b \in Range(prog.preds[def_bb(prog, partition_to_var(map, p).id)])

\* The number of classes of the union-find structure of the map.
NumClasses(m) ==
  Cardinality({ partition_find(m.var_partition, e) :
                  e \in 0..(m.partition_size - 1) })

\* C5: no step of coalesce_tpa_members, with or without a coalesce list,
\* increases the number of partitions, and each step reported as a
\* successful union decreases it by exactly one.
C5_PartitionCount ==
  [][(pc \in {"coalesce_list", "coalesce_trees", "coalesce_inner"}) =>
       /\ NumClasses(map') <= NumClasses(map)
       /\ ((last'.op = "coalesce" /\ last'.ret = "success")
             => (NumClasses(map') = NumClasses(map) - 1))]_vars

\* A second successful union has just been reported.
C5_Witness ==
  /\ last.op = "coalesce"
  /\ last.ret = "success"
  /\ NumClasses(map) = map.partition_size - 2

\* The loop procedures over versions i_1, i_2, i_3 of one variable, after
\* coalesce_tpa_members has run on the root-variable classes without a
\* coalesce list.
OneVariable == [v \in 1..5 |-> 1]

RootCoalesced(pg) == pc = "coalesced" /\ cl = NULL_LIST /\ prog = pg

LoopPartitions == { PartitionOf(map, ann, v) : v \in 1..3 }

\* C25: for the loop i_2 = PHI <i_1, i_3>; i_3 = i_2 + 1, coalescing the
\* root-variable class ends with i_1, i_2 and i_3 in one partition; when
\* the body uses i_2 after the increment, the conflict graph holds an arc
\* between i_2 and i_3 and coalescing ends with exactly two partitions,
\* i_2 and i_3 in different ones.
C25_LoopCoalescing ==
  /\ RootCoalesced(Loop(OneVariable)) => Cardinality(LoopPartitions) = 1
  /\ (prog = LoopBodyUse(OneVariable)
        /\ last.op = "build_tree_conflict_graph")
       => conflict_graph_conflict_p(cg, PartitionOf(map, ann, 2),
                                    PartitionOf(map, ann, 3))
  /\ RootCoalesced(LoopBodyUse(OneVariable)) =>
       /\ Cardinality(LoopPartitions) = 2
       /\ PartitionOf(map, ann, 2) # PartitionOf(map, ann, 3)

\* Coalescing has ended on the loop that uses the old value after the
\* increment, on a compacted map: i_1 and i_2 share a partition, i_3 has
\* its own.
C25_Witness ==
  /\ RootCoalesced(LoopBodyUse(OneVariable))
  /\ Compacted(map)
  /\ PartitionOf(map, ann, 1) = PartitionOf(map, ann, 2)
  /\ PartitionOf(map, ann, 1) # PartitionOf(map, ann, 3)

\* Coalescing has ended on the loop without the extra use.
C25_WitnessOnePartition ==
  /\ RootCoalesced(Loop(OneVariable))
  /\ Cardinality(LoopPartitions) = 1

\* The SSA versions defined by a PHI of block B and used nowhere.
UnusedPhiResults(b) ==
  { r \in Versions :
      /\ PhiResultIn(r, b)
      /\ \A c \in Blocks(prog) :
           /\ ~ UsedAfter(r, c, 0)
           /\ \A src \in Blocks(prog) : ~ PhiArgFrom(r, c, src) }

SameClass(u, v) ==
  /\ var_to_partition(map, ann, SsaName(u)) # NO_PARTITION
  /\ var_to_partition(map, ann, SsaName(v)) # NO_PARTITION
  /\ tpa_find_tree(tp, var_to_partition(map, ann, SsaName(u))) # TPA_NONE
  /\ tpa_find_tree(tp, var_to_partition(map, ann, SsaName(u)))
       = tpa_find_tree(tp, var_to_partition(map, ann, SsaName(v)))

AfterBuild ==
  pc \in {"sort_coalesce_list", "coalesce_list", "coalesce_trees",
          "coalesce_inner", "coalesced"}

\* C9: for a PHI whose result r is never used, the graph
\* build_tree_conflict_graph returns holds a conflict between r's partition
\* and every partition of r's TPA class that is live at the top of the
\* PHI's block, and coalesce_tpa_members never puts r in one partition with
\* any of them.
C9_UnusedPhiResult ==
  AfterBuild =>
    \A b \in Blocks(prog) : \A r \in UnusedPhiResults(b) :
      \A w \in Versions :
        (w # r /\ LiveAt(w, b, 0) /\ SameClass(r, w)) =>
          /\ last.op = "build_tree_conflict_graph" =>
               conflict_graph_conflict_p(cg,
                 var_to_partition(map, ann, SsaName(r)),
                 var_to_partition(map, ann, SsaName(w)))
          /\ ~ SamePartition(r, w)

\* The first half of C9 alone: in the graph build_tree_conflict_graph
\* returns, the partition of an unused PHI result conflicts with every
\* partition of its class that is live at the top of the PHI's block.
UnusedPhiConflictRecorded ==
  (last.op = "build_tree_conflict_graph") =>
    \A b \in Blocks(prog) : \A r \in UnusedPhiResults(b) :
      \A w \in Versions :
        (w # r /\ LiveAt(w, b, 0) /\ SameClass(r, w)) =>
          conflict_graph_conflict_p(cg,
            var_to_partition(map, ann, SsaName(r)),
            var_to_partition(map, ann, SsaName(w)))

\* build_tree_conflict_graph has returned on a procedure with an unused PHI
\* result r and a version w of r's class live at the top of the PHI's
\* block, on a map in which w had been united with another version.
UnusedPhiConflictReached ==
  /\ last.op = "build_tree_conflict_graph"
  /\ \E b \in Blocks(prog) : \E r \in UnusedPhiResults(b) :
       \E w \in Versions :
         /\ w # r
         /\ LiveAt(w, b, 0)
         /\ SameClass(r, w)
         /\ \E u \in Versions : u # w /\ SamePartition(u, w)

\* The TPA class the coalescer sees for partition P: its entry in
\* partition_to_tree_map, unless that names a class compacted away.
ClassSeen(p) ==
  IF tp.partition_to_tree_map[p] \in 0..(tp.num_trees - 1)
  THEN tp.partition_to_tree_map[p]
  ELSE TPA_NONE

\* The partition that P's variable is in now.
Resolved(p) == var_to_partition(map, ann, partition_to_var(map, p))

\* The pair popped by the step being taken may not be unioned.
Mismatched(x, y) ==
  \/ ClassSeen(x) # ClassSeen(y)
  \/ ClassSeen(x) = TPA_NONE
  \/ ClassSeen(y) = TPA_NONE

\* C13: in the loop over the coalesce list, a popped pair whose partitions
\* are in different TPA classes, or of which one is in no class, is rejected;
\* a union is performed only between two partitions of one TPA class, whose
\* variables have the same underlying declaration; and every rejected pair
\* leaves the partition map, the conflict graph and the TPA as they were.
C13_ListUnionSameClass ==
  [][(pc = "coalesce_list" /\ last'.op = "coalesce") =>
       /\ Mismatched(last'.p1, last'.p2) => (last'.ret = "non_matching_tpa")
       /\ (last'.ret = "success") =>
            /\ ClassSeen(last'.p1) = ClassSeen(last'.p2)
            /\ ClassSeen(last'.p1) # TPA_NONE
            /\ ClassSeen(Resolved(last'.p1)) = ClassSeen(last'.p1)
            /\ ClassSeen(Resolved(last'.p2)) = ClassSeen(last'.p1)
            /\ SSA_NAME_VAR(partition_to_var(map, last'.p1))
                 = SSA_NAME_VAR(partition_to_var(map, last'.p2))
            /\ map' # map
       /\ (last'.ret # "success") =>
            (map' = map /\ ann' = ann /\ cg' = cg /\ tp' = tp)]_vars

\* On a TPA that tpa_compact has compacted, a pair of two partitions that
\* are both in no class (w = z = TPA_NONE, which only the TPA_NONE tests
\* reject) has just been popped and rejected, after an earlier pair of one
\* class was unioned.
C13_Witness ==
  /\ pc = "coalesce_list"
  /\ last.op = "coalesce"
  /\ last.ret = "non_matching_tpa"
  /\ tp.uncompressed_num # -1
  /\ ClassSeen(last.p1) = TPA_NONE
  /\ ClassSeen(last.p2) = TPA_NONE
  /\ \E x \in DOMAIN joined : joined[x] # x

\* A pair of partitions of two different classes has just been popped and
\* rejected, after an earlier pair was unioned.
C13_WitnessDifferentClasses ==
  /\ pc = "coalesce_list"
  /\ last.op = "coalesce"
  /\ last.ret = "non_matching_tpa"
  /\ ClassSeen(last.p1) # TPA_NONE
  /\ ClassSeen(last.p2) # TPA_NONE
  /\ \E x \in DOMAIN joined : joined[x] # x

\* A popped pair of which exactly one partition is in no class has just
\* been rejected.
C13_WitnessOneClassless ==
  /\ pc = "coalesce_list"
  /\ last.op = "coalesce"
  /\ last.ret = "non_matching_tpa"
  /\ (ClassSeen(last.p1) = TPA_NONE) # (ClassSeen(last.p2) = TPA_NONE)

\* The operations of the pipeline that only read the partition map.
MapReaders ==
  {"scan", "live_worklist", "pop", "calculate_live_on_entry",
   "calculate_live_on_exit", "root_var_init", "type_var_init", "tpa_compact",
   "build_tree_conflict_graph", "sort_coalesce_list", "coalesce_trees",
   "coalesce_tpa_members"}

\* C21: the live range calculation, root_var_init, type_var_init,
\* tpa_compact, build_tree_conflict_graph (with its add_coalesce calls),
\* sort_coalesce_list, pop_best_coalesce and tpa_remove_partition leave the
\* partition map as it was; a step of coalesce_tpa_members changes the map
\* only when it reports a union, and
\* then to what var_union makes of it for the variables of the two
\* partitions the step is about.
C21_MapFrame ==
  [][/\ (last'.op \in MapReaders) => (map' = map)
     /\ (last'.op \notin MapReaders) => (last'.op = "coalesce")
     /\ (last'.op = "coalesce" /\ last'.ret # "success") => (map' = map)
     /\ (last'.op = "coalesce" /\ last'.ret = "success") =>
          /\ map' # map
          /\ \E x \in {last'.p1, co.p1} \ {NO_PARTITION} :
               map' = var_union(map, ann, partition_to_var(map, x),
                                partition_to_var(map, last'.p2)).map]_vars

\* coalesce_tpa_members has returned after a union changed a compacted map
\* whose coalesce list build_tree_conflict_graph had filled, the classes
\* being those of root_var_init after tpa_compact.
C21_Witness ==
  /\ pc = "coalesced"
  /\ Compacted(map)
  /\ cl # NULL_LIST
  /\ tp.uncompressed_num # -1
  /\ Cardinality({ x \in DOMAIN joined : joined[x] # x }) >= 2

\* coalesce_tpa_members has returned after two unions on the classes of
\* type_var_init, tpa_compact having been called on them.
C21_WitnessTypeVar ==
  /\ pc = "coalesced"
  /\ tp.num_trees >= 1
  /\ tp.uncompressed_num # -1
  /\ \A i \in DOMAIN tp.trees : TREE_CODE(tp.trees[i]) = "INTEGER_TYPE"
  /\ Cardinality({ x \in DOMAIN joined : joined[x] # x }) >= 2

(***************************************************************************)
(* SpecCoalesce: the pipeline from the live ranges to the end of           *)
(* coalesce_tpa_members, on maps in which runs of consecutive versions     *)
(* have been united beforehand.                                            *)
(***************************************************************************)
\* The definition of version V: a constant, or with COPIES, for the first
\* CoCopies versions after version 1, a copy of the version before it.
IsCopy(v, copies) == copies /\ v > 1 /\ v <= CoCopies + 1

RangeDef(v, copies) ==
  IF IsCopy(v, copies) THEN CopyStmt(v, v - 1) ELSE ConstStmt(v)

\* The statements for versions LO..HI, one after the other: x_v = ..;
\* use (x_v), the use left out when the next copy is the use.  Version
\* CoVersions, defined at the end of block 0, is used right after the
\* definition of version K.
RECURSIVE RangeStmts(_, _, _, _)
RangeStmts(lo, hi, k, copies) ==
  IF lo > hi THEN <<>>
  ELSE <<RangeDef(lo, copies)>>
       \o (IF lo = k THEN <<UseStmt(<<CoVersions>>)>> ELSE <<>>)
       \o (IF IsCopy(lo + 1, copies) /\ lo < CoVersions - 1 THEN <<>>
           ELSE <<UseStmt(<<lo>>)>>)
       \o RangeStmts(lo + 1, hi, k, copies)

\* Two blocks: versions 1..K-1 and the definition of version CoVersions,
\* then versions K..CoVersions-1; all versions are of declaration 1.
RangeProgram(k, copies) ==
  Procedure([v \in 1..CoVersions |-> 1], CoVersions,
            << <<ENTRY_BLOCK>>, <<0>> >>, << <<>>, <<>> >>,
            << RangeStmts(1, k - 1, k, copies) \o <<ConstStmt(CoVersions)>>,
               RangeStmts(k, CoVersions - 1, k, copies) >>)

\* Two blocks: versions 1..K-1 are defined in block 0 and all but the last
\* of them used there; block 1 starts with x_CoVersions = PHI <7>, whose
\* result is used nowhere, then uses version K-1 and goes on with versions
\* K..CoVersions-1.  Version K-1 is live at the top of the PHI's block.
PhiRangeProgram(k) ==
  Procedure([v \in 1..CoVersions |-> 1], CoVersions,
            << <<ENTRY_BLOCK>>, <<0>> >>,
            << <<>>, <<Phi(CoVersions, <<ConstArg(0)>>)>> >>,
            << SubSeq(RangeStmts(1, k - 1, 0, FALSE), 1, 2 * (k - 1) - 1),
               <<UseStmt(<<k - 1>>)>>
                 \o RangeStmts(k, CoVersions - 1, 0, FALSE) >>)

\* The procedures of SpecCoalesce.
CoPrograms ==
  { RangeProgram(k, copies) : k \in 1..(CoVersions - 1), copies \in BOOLEAN }
    \cup { PhiRangeProgram(k) : k \in 2..(CoVersions - 1) }

\* The map after var_union (x_v, x_v+1) for every V in U from V on.
RECURSIVE unite_runs(_, _, _, _)
unite_runs(m, a, U, v) ==
  IF v > CoVersions - 2 THEN [map |-> m, ann |-> a]
  ELSE IF v \in U
       THEN unite_runs(var_union(m, a, SsaName(v), SsaName(v + 1)).map,
                       var_union(m, a, SsaName(v), SsaName(v + 1)).ann,
                       U, v + 1)
       ELSE unite_runs(m, a, U, v + 1)

UnitedMap(pg, U, mode) ==
  IF mode = "uncompacted"
  THEN unite_runs(create_ssa_var_map(pg), InitAnn, U, 1)
  ELSE compact_var_map(unite_runs(create_ssa_var_map(pg), InitAnn, U, 1).map,
                       unite_runs(create_ssa_var_map(pg), InitAnn, U, 1).ann,
                       VARMAP_NORMAL)

InitCoalesce ==
  /\ \E pg \in CoPrograms :
     \E U \in SUBSET (1..(CoVersions - 2)) :
     \E mode \in {"uncompacted", "normal"} :
       /\ prog = pg
       /\ map = UnitedMap(pg, U, mode).map
       /\ ann = UnitedMap(pg, U, mode).ann
       /\ joined = [x \in 0..CoVersions |->
                      CHOOSE y \in 0..CoVersions :
                        /\ partition_find(map.var_partition, y)
                             = partition_find(map.var_partition, x)
                        /\ \A z \in 0..(y - 1) :
                             partition_find(map.var_partition, z)
                               # partition_find(map.var_partition, x)]
  /\ nops = 0
  /\ last = [op |-> "init", ret |-> 0]
  /\ pc = "calculate_live_on_entry"
  /\ live = NULL_LIVE
  /\ stack = <<>>
  /\ cur = NO_PARTITION
  /\ cl = NULL_LIST
  /\ hist = NULL_HIST
  /\ tp = NULL_TPA
  /\ cg = conflict_graph_new
  /\ co = NULL_LOCALS

NextCoalesce ==
  \/ CalculateLiveOnEntryScan
  \/ \E i \in 0..(num_var_partitions(map) - 1) : LiveWorklistEnter(i)
  \/ LiveWorklistPop
  \/ CalculateLiveOnEntryReturn
  \/ CalculateLiveOnExit
  \/ \E with_list \in BOOLEAN : RootVarInit(with_list)
  \/ TypeVarInitLive
  \/ BuildTreeConflictGraph
  \/ SortCoalesceList
  \/ CoalesceListStep
  \/ CoalesceListReturn
  \/ CoalesceTreesOuter
  \/ CoalesceTreesInner
  \/ CoalesceTreesInnerDone
  \/ CoalesceTreesReturn

SpecCoalesce == InitCoalesce /\ [][NextCoalesce]_vars

\* The pairs still on the sorted coalesce list.
PairsLeft ==
  { <<cl.list[0][k].first_partition, cl.list[0][k].second_partition>> :
      k \in DOMAIN cl.list[0] }

\* The partitions on the list of class X, and those from the cursor Z on.
OnList(t, x) == tpa_list(t, tpa_first_partition(t, x))

\* The partitions still on the lists of the classes from X on.
RECURSIVE Remaining(_, _)
Remaining(t, x) ==
  IF x >= tpa_num_trees(t) THEN 0
  ELSE Cardinality(OnList(t, x)) + Remaining(t, x + 1)

\* A bound on the steps coalesce_tpa_members and the sort before it have
\* left: the pairs on the list, or the classes and listed partitions still
\* to visit, weighted so that a pass of the inner loop counts less than
\* one partition taken off a list.
Rank ==
  IF pc = "sort_coalesce_list"
  THEN Len(flatten_chains(cl.list, <<>>, 0)) + 2
  ELSE IF pc = "coalesce_list" THEN Len(cl.list[0]) + 1
  ELSE IF pc = "coalesce_trees"
  THEN (map.partition_size + 2)
         * (Remaining(tp, co.x) + tpa_num_trees(tp) - co.x) + 1
  ELSE IF pc = "coalesce_inner"
  THEN (map.partition_size + 2)
         * (Remaining(tp, co.x) + tpa_num_trees(tp) - co.x)
       + Cardinality(tpa_list(tp, co.z)) + 2
  ELSE 0

CurrentPartition(p) == var_to_partition(map, ann, partition_to_var(map, p))

\* The conflict graph only grows: build_tree_conflict_graph adds the arcs
\* between the partitions it finds live together, and every merge adds arcs
\* between a representative and the neighbours of a partition of its group.
ArcEnds == { q \in (UNION cg) \X (UNION cg) : q[1] # q[2] /\ {q[1], q[2]} \in cg }

\* C26: in both modes of coalesce_tpa_members, for every arc of the
\* conflict graph the partition that now represents one end still has the
\* other end among its neighbours, and the two ends have not been
\* coalesced into one partition.
C26_MergedConflictsKept ==
  \A q \in ArcEnds :
    /\ {CurrentPartition(q[1]), q[2]} \in cg
    /\ CurrentPartition(q[1]) # CurrentPartition(q[2])

\* The same restricted to the mode with a coalesce list.
ConflictsKeptWithList == (cl # NULL_LIST) => C26_MergedConflictsKept

\* The list of a class as the sequence walked from partition Y through
\* next_partition.
RECURSIVE tpa_list_seq(_, _)
tpa_list_seq(t, y) ==
  IF y = TPA_NONE THEN <<>>
  ELSE <<y>> \o tpa_list_seq(t, tpa_next_partition(t, y))

ClassSeq(t, x) == tpa_list_seq(t, tpa_first_partition(t, x))

\* The sequence Q without its element P.
RECURSIVE SeqWithout(_, _)
SeqWithout(q, p) ==
  IF q = <<>> THEN <<>>
  ELSE IF Head(q) = p THEN SeqWithout(Tail(q), p)
  ELSE <<Head(q)>> \o SeqWithout(Tail(q), p)

\* The partitions a step of coalesce_tpa_members takes off a class list.
Unlinked(t1, t2) ==
  UNION { OnList(t1, x) \ OnList(t2, x) : x \in 0..(tpa_num_trees(t1) - 1) }

\* C31: a step of coalesce_tpa_members changes the associator only by
\* unlinking one partition from the list of its class: the other members
\* keep their order, the unlinked partition keeps its next_partition and
\* every partition keeps its partition_to_tree_map entry, so that
\* tpa_find_tree answers the same for every partition throughout; and the
\* test for a partition without a class in the loop of the mode without a
\* list never fires.
C31_RemoveOnlyUnlinks ==
  /\ [][(pc \in {"coalesce_list", "coalesce_trees", "coalesce_inner"}) =>
          /\ tp'.partition_to_tree_map = tp.partition_to_tree_map
          /\ tp'.trees = tp.trees
          /\ tp'.num_trees = tp.num_trees
          /\ \A p \in DOMAIN tp.partition_to_tree_map :
               tpa_find_tree(tp', p) = tpa_find_tree(tp, p)
          /\ Cardinality(Unlinked(tp, tp')) <= 1
          /\ \A p \in Unlinked(tp, tp') :
               /\ tp'.next_partition[p] = tp.next_partition[p]
               /\ \A x \in 0..(tpa_num_trees(tp) - 1) :
                    ClassSeq(tp', x) = SeqWithout(ClassSeq(tp, x), p)
          /\ (Unlinked(tp, tp') = {}) => (tp' = tp)
          /\ ((pc = "coalesce_trees" /\ pc' = "coalesce_inner")
                \/ (last'.op = "coalesce" /\ last'.ret = "success")
                \/ (last'.op = "coalesce" /\ cl = NULL_LIST
                      /\ last'.ret = "already_coalesced"))
               => (Unlinked(tp, tp') # {})]_<<pc, co, cl, tp>>
  /\ [](last.op = "coalesce" => last.ret # "non_tpa_member")
  /\ [](pc = "coalesce_inner" =>
          /\ tpa_find_tree(tp, co.y) = co.x
          /\ (co.z # TPA_NONE) => (tpa_find_tree(tp, co.z) = co.x))

\* The mode without a list has just united the first partition of a class
\* with a partition that was not at the head of the class list, a partition
\* in conflict being left in front of it: the partition was unlinked from
\* behind another and still answers to its class.
C31_Witness ==
  /\ pc = "coalesce_inner"
  /\ cl = NULL_LIST
  /\ last.op = "coalesce"
  /\ last.ret = "success"
  /\ tpa_first_partition(tp, co.x) # TPA_NONE
  /\ tpa_first_partition(tp, co.x) # co.z
  /\ last.p2 \notin OnList(tp, co.x)
  /\ tp.next_partition[last.p2] = co.z
  /\ tpa_find_tree(tp, last.p2) = co.x

\* The partitions that have a class and are on no class list any more.
TakenOff(t) ==
  { p \in DOMAIN t.partition_to_tree_map : tpa_find_tree(t, p) # TPA_NONE }
  \ UNION { OnList(t, x) : x \in 0..(tpa_num_trees(t) - 1) }

\* C32: in the mode without a list, coalesce_tpa_members starts with every
\* partition of a class on the list of its class; every partition taken
\* off a list is the first partition y of an iteration of the while loop
\* or the partition z the for loop has just found coalesced with y; a
\* partition taken off is never linked again, so each is taken off exactly
\* once; and on return the list of every class is empty.
C32_ClassesEmptied ==
  /\ []((cl = NULL_LIST /\ last.op = "build_tree_conflict_graph") =>
          TakenOff(tp) = {})
  /\ [][(cl = NULL_LIST /\ pc \in {"coalesce_trees", "coalesce_inner"}) =>
          /\ TakenOff(tp) \subseteq TakenOff(tp')
          /\ (pc = "coalesce_trees" /\ pc' = "coalesce_inner") =>
               /\ TakenOff(tp') \ TakenOff(tp) = {co'.y}
               /\ tpa_find_tree(tp, co'.y) = co.x
          /\ (pc = "coalesce_trees" /\ pc' # "coalesce_inner") =>
               (TakenOff(tp') = TakenOff(tp))
          /\ (pc = "coalesce_inner" /\ last'.op = "coalesce") =>
               (TakenOff(tp') \ TakenOff(tp)
                  = IF last'.ret \in {"success", "already_coalesced"}
                    THEN {co.z} ELSE {})
          /\ (pc = "coalesce_inner" /\ last'.op # "coalesce") =>
               (TakenOff(tp') = TakenOff(tp))]_<<pc, co, cl, tp>>
  /\ []((cl = NULL_LIST /\ pc = "coalesced") =>
          /\ \A x \in 0..(tpa_num_trees(tp) - 1) :
               tpa_first_partition(tp, x) = TPA_NONE
          /\ TakenOff(tp) = { p \in DOMAIN tp.partition_to_tree_map :
                                tpa_find_tree(tp, p) # TPA_NONE })

\* The mode without a list has returned after a conflict kept a partition
\* on its list for a later iteration of the while loop: three partitions
\* of one class were taken off, two of them as first partitions.
C32_Witness ==
  /\ pc = "coalesced"
  /\ cl = NULL_LIST
  /\ cg # {}
  /\ Cardinality(TakenOff(tp)) >= 3
  /\ \E p \in TakenOff(tp) : \E q \in TakenOff(tp) :
       /\ p # q
       /\ tpa_find_tree(tp, p) = tpa_find_tree(tp, q)
       /\ CurrentPartition(p) # CurrentPartition(q)

(***************************************************************************)
(* SpecConflict: the live ranges, then root_var_init or type_var_init,     *)
(* with or without tpa_compact, then build_tree_conflict_graph.            *)
(***************************************************************************)
NextConflict ==
  \/ CalculateLiveOnEntryScan
  \/ \E i \in 0..(num_var_partitions(map) - 1) : LiveWorklistEnter(i)
  \/ LiveWorklistPop
  \/ CalculateLiveOnEntryReturn
  \/ CalculateLiveOnExit
  \/ \E with_list \in BOOLEAN : RootVarInit(with_list)
  \/ TypeVarInitLive
  \/ TpaCompactLive
  \/ BuildTreeConflictGraph

SpecConflict == Init /\ [][NextConflict]_vars

\* The partitions live at the top of block B when the backward walk of
\* build_tree_conflict_graph has passed its first statement.
LiveAtTop(b) == StateBeforeStmt(b, 0).live

\* C28: every arc of the graph build_tree_conflict_graph returns joins two
\* different partitions that are both in a TPA class, the same one; and any
\* two different partitions of one class that are live at the top of a
\* block after its backward scan are joined by an arc.
C28_ConflictsWithinClass ==
  (last.op = "build_tree_conflict_graph") =>
    /\ \A e \in cg :
         /\ Cardinality(e) = 2
         /\ \A p \in e : tpa_find_tree(tp, p) # TPA_NONE
         /\ \A p \in e : \A q \in e :
              tpa_find_tree(tp, p) = tpa_find_tree(tp, q)
    /\ \A b \in Blocks(prog) : \A p \in LiveAtTop(b) : \A q \in LiveAtTop(b) :
         (/\ p # q
          /\ tpa_find_tree(tp, p) # TPA_NONE
          /\ tpa_find_tree(tp, p) = tpa_find_tree(tp, q))
           => conflict_graph_conflict_p(cg, p, q)

\* The graph has been built over compacted classes: a partition without a
\* class is live at the top of a block together with two partitions of one
\* class, which conflict.
C28_Witness ==
  /\ last.op = "build_tree_conflict_graph"
  /\ tp.uncompressed_num # -1
  /\ \E b \in Blocks(prog) : \E p \in LiveAtTop(b) : \E q \in LiveAtTop(b) :
       \E r \in LiveAtTop(b) :
         /\ p # q
         /\ conflict_graph_conflict_p(cg, p, q)
         /\ tpa_find_tree(tp, r) = TPA_NONE

(***************************************************************************)
(* SpecWorklist: calculate_live_on_entry and calculate_live_on_exit run to *)
(* the end; the procedure always takes its next step.                      *)
(***************************************************************************)
NextWorklist ==
  \/ CalculateLiveOnEntryScan
  \/ \E i \in 0..(num_var_partitions(map) - 1) : LiveWorklistEnter(i)
  \/ LiveWorklistPop
  \/ CalculateLiveOnEntryReturn
  \/ CalculateLiveOnExit

SpecWorklist == Init /\ [][NextWorklist]_vars /\ WF_vars(NextWorklist)

\* The blocks on the stack from position K on.
StackFrom(stk, k) == { stk[j] : j \in k..Len(stk) }

\* C22: live_worklist terminates on every control flow graph, loops and
\* self-loops included.  While it runs, the stack holds no block twice and
\* only blocks live on entry for the partition; a step pops one block and
\* pushes exactly the blocks it adds to livein, each once, and livein never
\* loses a block, so each block is pushed at most once for a partition;
\* the stack is empty whenever live_worklist is left; and
\* calculate_live_on_entry always returns.
C22_WorklistTerminates ==
  /\ [](pc = "live_worklist" /\ stack # <<>> =>
          /\ \A j, k \in DOMAIN stack : stack[j] = stack[k] => j = k
          /\ StackFrom(stack, 1) \subseteq live.livein[cur])
  /\ [](pc # "live_worklist" => stack = <<>>)
  /\ [][(last'.op = "pop") =>
          /\ Len(stack') = Len(stack) - 1
                            + Cardinality(live'.livein[cur] \ live.livein[cur])
          /\ SubSeq(stack', 1, Len(stack) - 1)
               = SubSeq(stack, 1, Len(stack) - 1)
          /\ StackFrom(stack', Len(stack))
               = live'.livein[cur] \ live.livein[cur]
          /\ \A p \in Partitions :
               live.livein[p] \subseteq live'.livein[p]]_vars
  /\ [][(last'.op = "live_worklist") => (stack = <<>>)]_vars
  /\ (pc = "calculate_live_on_entry") ~> (pc = "calculate_live_on_exit")

\* calculate_live_on_entry has returned for a procedure in which a block
\* that is its own predecessor, and a second block, became live on entry
\* for a partition by propagation.
C22_Witness ==
  /\ pc = "calculate_live_on_exit"
  /\ \E p \in Partitions : \E b \in live.livein[p] :
       /\ b \in Range(prog.preds[b])
       /\ b \notin live_initial_scan(prog, map, ann).livein[p]
       /\ Cardinality(live.livein[p]) >= 3

(***************************************************************************)
(* SpecCompact: tpa_compact on the associators root_var_init and           *)
(* type_var_init make for CompactSSA versions spread over four             *)
(* declarations in every way.                                              *)
(***************************************************************************)
CompactDecls == {1, 3, 6, 7}

CompactProgram(tab) ==
  [num_ssa_names |-> CompactSSA,
   ssa_name_var |-> tab,
   nblocks |-> 1,
   preds |-> [b \in {0} |-> <<ENTRY_BLOCK>>],
   phis |-> [b \in {0} |-> <<>>],
   stmts |-> [b \in {0} |-> [v \in 1..CompactSSA |-> ConstStmt(v)]]]

InitCompact ==
  /\ \E tab \in [1..CompactSSA -> CompactDecls] : prog = CompactProgram(tab)
  /\ \E mode \in {"uncompacted", "normal"} :
       /\ map = PreparedMap(prog, mode).map
       /\ ann = PreparedMap(prog, mode).ann
  /\ joined = [x \in 0..CompactSSA |-> x]
  /\ nops = 0
  /\ last = [op |-> "init", ret |-> 0]
  /\ pc = "map"
  /\ live = NULL_LIVE
  /\ stack = <<>>
  /\ cur = NO_PARTITION
  /\ cl = NULL_LIST
  /\ hist = NULL_HIST
  /\ tp = NULL_TPA
  /\ cg = conflict_graph_new
  /\ co = NULL_LOCALS

NextCompact ==
  \/ RootVarInitMap
  \/ TypeVarInit
  \/ TpaCompact

SpecCompact == InitCompact /\ [][NextCompact]_vars

(***************************************************************************)
(* Properties of the tree-partition associators (SpecTpa).                 *)
(***************************************************************************)
\* The partitions on the list of class I.
ClassList(i) == tpa_list(tp, tpa_first_partition(tp, i))

\* The partitions on some list.
Listed == UNION { ClassList(i) : i \in 0..(Len(tp.trees) - 1) }

\* The declaration partition P stands for: its representative, or the
\* declaration that representative is a version of.
Backing(p) ==
  IF TREE_CODE(partition_to_var(map, p)) = "SSA_NAME"
  THEN SSA_NAME_VAR(partition_to_var(map, p)).id
  ELSE partition_to_var(map, p).id

\* Declaration D is of a kind that is not to be coalesced by type.
Disallowed(d) ==
  \/ DeclTable[d].volatile
  \/ DeclTable[d].code \in {"PARM_DECL", "RESULT_DECL"}
  \/ DeclTable[d].register
  \/ ~ DeclTable[d].ignored
  \/ DeclTable[d].rtl_set

\* C14: after type_var_init no partition that stands for a volatile, a
\* parameter, a function result, a register variable, a declaration with a
\* name that is not ignored or one with storage assigned is in a class,
\* whether its representative is the declaration or an SSA version of it.
C14_DisallowedAbsent ==
  (last.op = "type_var_init") =>
    \A p \in 0..(num_var_partitions(map) - 1) :
      (/\ partition_to_var(map, p) # NULL_TREE
       /\ Disallowed(Backing(p)))
        => (p \notin Listed /\ tp.partition_to_tree_map[p] = TPA_NONE)

\* The partitions on the list of class I of associator T.
Members(t, i) == tpa_list(t, tpa_first_partition(t, i))

\* The classes of associator T, each with its tree and its partitions.
Classes(t) == { <<tpa_tree(t, i), Members(t, i)>> : i \in 0..(Len(t.trees) - 1) }

\* C17: tpa_compact on an associator whose classes all have a member, in
\* whatever order the classes of one and of several partitions come: the
\* classes below the new num_trees are those of two or more partitions, the
\* classes from num_trees up to uncompressed_num are those of one partition,
\* uncompressed_num is the number of classes before the call, every class
\* keeps its tree and its partitions, and partition_to_tree_map of every
\* listed partition is the index of the class that lists it.
C17_CompactedClasses ==
  [][(last'.op = "tpa_compact") =>
       /\ tp'.uncompressed_num = tp.num_trees
       /\ Len(tp'.trees) = tp.num_trees
       /\ tp'.num_trees \in 0..tp.num_trees
       /\ Classes(tp') = Classes(tp)
       /\ \A i \in 0..(tp.num_trees - 1) :
            /\ (i < tp'.num_trees) <=> (Cardinality(Members(tp', i)) >= 2)
            /\ (i >= tp'.num_trees) <=> (Cardinality(Members(tp', i)) = 1)
            /\ \A p \in Members(tp', i) : tp'.partition_to_tree_map[p] = i]_vars

\* tpa_compact has moved classes: some class of one partition came before
\* a class of several, and now two classes of several partitions are
\* followed by one of a single partition.
C17_Witness ==
  /\ last.op = "tpa_compact"
  /\ last.before # tp.trees
  /\ tp.num_trees >= 2
  /\ tp.uncompressed_num > tp.num_trees

\* C18: the value tpa_compact returns is the number of tree lists that
\* remain, that is num_trees after the call.
C18_ReturnsNumTrees ==
  (last.op = "tpa_compact") => (last.ret = tp.num_trees)

\* The partitions of the map: the numbers the registered versions resolve
\* to.  Each has a representative variable.
MapPartitions ==
  { PartitionOf(map, ann, v) : v \in Registered } \ {NO_PARTITION}

\* The classes that list partition P.
ClassesOf(p) == { i \in 0..(Len(tp.trees) - 1) : p \in ClassList(i) }

\* C19: after root_var_init every partition that has a representative
\* variable is on the list of exactly one class; two partitions are in one
\* class iff their representatives have the same underlying declaration;
\* partition_to_tree_map names the class that lists the partition; and
\* root_var_processed is clear on every declaration.
C19_RootVarClasses ==
  (last.op = "root_var_init") =>
    /\ \A p \in MapPartitions :
         /\ Cardinality(ClassesOf(p)) = 1
         /\ ClassesOf(p) = {tp.partition_to_tree_map[p]}
         /\ tpa_tree(tp, tp.partition_to_tree_map[p]) = Decl(Backing(p))
    /\ \A p, q \in MapPartitions :
         (ClassesOf(p) = ClassesOf(q)) <=> (Backing(p) = Backing(q))
    /\ Listed = MapPartitions
    /\ \A d \in DeclIds : ~ ann[d].root_var_processed

\* root_var_init has made two classes, one of them with two partitions, on
\* a map where a declaration represents a partition.
C19_Witness ==
  /\ last.op = "root_var_init"
  /\ tp.num_trees >= 2
  /\ \E i \in 0..(tp.num_trees - 1) : Cardinality(ClassList(i)) >= 2
  /\ \E p \in MapPartitions : DECL_P(partition_to_var(map, p))

\* C29: after root_var_init and after type_var_init every class list, walked
\* from first_partition through next_partition, visits partition numbers in
\* strictly ascending order until it ends at TPA_NONE.
C29_ClassListsAscending ==
  (last.op \in {"root_var_init", "type_var_init"}) =>
    \A x \in 0..(tpa_num_trees(tp) - 1) :
      \A y \in tpa_list(tp, tpa_first_partition(tp, x)) :
        \/ tpa_next_partition(tp, y) = TPA_NONE
        \/ tpa_next_partition(tp, y) > y

\* The same for maps on which every partition still represents itself, as
\* it does when no union has been made since the map was created or last
\* compacted.
AscendingWithoutUnions ==
  (\A x \in 0..(num_var_partitions(map) - 1) :
     partition_to_var(map, x) # NULL_TREE =>
       var_to_partition(map, ann, partition_to_var(map, x)) = x)
    => C29_ClassListsAscending

====
